---- MODULE Spec2Model ----
(***************************************************************************)
(* Model of rok4_tools/tms2stuff.py: the conversion of a bounding box, a   *)
(* list of bounding boxes or a geometry file to WMTS GetTile parameters or *)
(* slab indices, through a tile matrix.                                    *)
(*                                                                         *)
(* Python strings are sequences of one-character strings, compared by code *)
(* point as Python compares them.  None is the empty tuple <<>> and a      *)
(* value v that may be None is the one-element tuple <<v>>.                *)
(***************************************************************************)
EXTENDS Integers, Sequences, FiniteSets, TLC

(***************************************************************************)
(* Bounds of the model.                                                    *)
(***************************************************************************)
MaxCol == 3
MaxRow == 2
MaxSlabW == 2
MaxSlabH == 2

(***************************************************************************)
(* Strings.                                                                *)
(***************************************************************************)
\* The characters the program reads and writes, in code point order.
Ascii ==
  << "\n", "&", ",", "-", ".", "0", "1", "2", "3", "4", "5", "6", "7",
     "8", "9", ":", "=", "A", "B", "C", "D", "E", "F", "G", "H", "I",
     "J", "K", "L", "M", "N", "O", "P", "Q", "R", "S", "T", "U", "V",
     "W", "X", "Y", "Z", "_", "x" >>

Ord(ch) == CHOOSE i \in DOMAIN Ascii : Ascii[i] = ch

Digits == << "0", "1", "2", "3", "4", "5", "6", "7", "8", "9" >>

IsDigit(ch) == \E i \in DOMAIN Digits : Digits[i] = ch

DigitVal(ch) == (CHOOSE i \in DOMAIN Digits : Digits[i] = ch) - 1

\* str < str of Python: at the first index where the strings differ the
\* character of a has the smaller code point, or a is a proper prefix of b.
StrLess(a, b) ==
  \E i \in 1..(Len(b)) :
    /\ \A j \in 1..(i - 1) : j <= Len(a) /\ a[j] = b[j]
    /\ \/ i = Len(a) + 1
       \/ i <= Len(a) /\ Ord(a[i]) < Ord(b[i])

\* tuple < tuple of Python on two (column, row) tuples of integers.
TupleLess(s, t) == s[1] < t[1] \/ (s[1] = t[1] /\ s[2] < t[2])

\* f"{n}" for an integer n.
RECURSIVE NatToStr(_)
NatToStr(n) ==
  IF n < 10 THEN << Digits[n + 1] >>
  ELSE NatToStr(n \div 10) \o << Digits[(n % 10) + 1] >>

IntToStr(n) == IF n < 0 THEN << "-" >> \o NatToStr(0 - n) ELSE NatToStr(n)

\* int(s) for a string of digits.
RECURSIVE DigitsToNat(_)
DigitsToNat(s) ==
  IF s = <<>> THEN 0
  ELSE 10 * DigitsToNat(SubSeq(s, 1, Len(s) - 1)) + DigitVal(s[Len(s)])

\* range(a, b) of Python as a sequence.
RangeSeq(a, b) == [i \in 1..(b - a) |-> a + i - 1]

\* The (outer, inner) pairs two nested for loops visit, in visiting order.
LoopPairs(outer, inner) ==
  [k \in 1..(Len(outer) * Len(inner)) |->
     << outer[((k - 1) \div Len(inner)) + 1],
        inner[((k - 1) % Len(inner)) + 1] >>]

\* x in list
InList(x, list) == \E i \in DOMAIN list : list[i] = x

None == <<>>
Some(v) == << v >>

(***************************************************************************)
(* External collaborators, stubbed: the tile matrix (rok4.TileMatrixSet)   *)
(* and the geometry (osgeo.ogr).                                           *)
(***************************************************************************)
\* math.floor(a / b) for b >= 1.  The quotient a / b is a float; its floor
\* is the integer floor division for every |a| below 2^52, far above any
\* tile index of a tile matrix.
FloorDiv(a, b) == a \div b

\* tm.bbox_to_tiles(bbox): the stub returns what the tile matrix record
\* holds for that bbox, as MagicMock(return_value=...) does in the tests,
\* and otherwise the tiles of its grid that the bbox reaches.
tm_bbox_to_tiles(tm, bbox) ==
  IF bbox \in DOMAIN tm.tiles THEN tm.tiles[bbox]
  ELSE << FloorDiv(bbox[1] - tm.x0, tm.res), FloorDiv(tm.y0 - bbox[4], tm.res),
          FloorDiv(bbox[3] - tm.x0, tm.res), FloorDiv(tm.y0 - bbox[2], tm.res) >>

\* tm.tile_to_bbox(column, row): a regular grid, origin at the top left
\* corner, rows growing downward.
tm_tile_to_bbox(tm, column, row) ==
  << tm.x0 + column * tm.res,
     tm.y0 - (row + 1) * tm.res,
     tm.x0 + (column + 1) * tm.res,
     tm.y0 - row * tm.res >>

\* The polygon the code builds from a bbox: a closed ring of five points.
Rectangle(b) ==
  << << b[1], b[2] >>, << b[3], b[2] >>, << b[3], b[4] >>,
     << b[1], b[4] >>, << b[1], b[2] >> >>

MinOf(S) == CHOOSE x \in S : \A y \in S : x <= y
MaxOf(S) == CHOOSE x \in S : \A y \in S : y <= x

\* container.Intersects(polygon): the geometry is a sequence of parts, each
\* an axis-aligned box (min_x, min_y, max_x, max_y); it intersects the
\* polygon when one of its parts shares a point with the polygon's extent.
Intersects(geometry, polygon) ==
  LET xs == { polygon[i][1] : i \in DOMAIN polygon }
      ys == { polygon[i][2] : i \in DOMAIN polygon }
  IN \E p \in DOMAIN geometry.parts :
       LET part == geometry.parts[p]
       IN /\ part[1] <= MaxOf(xs) /\ MinOf(xs) <= part[3]
          /\ part[2] <= MaxOf(ys) /\ MinOf(ys) <= part[4]

(***************************************************************************)
(* bbox_to_gettile                                                         *)
(***************************************************************************)
\* f"TILEMATRIX={tm.id}&TILECOL={column}&TILEROW={row}"
GetTileQuery(tm, column, row) ==
  << "T", "I", "L", "E", "M", "A", "T", "R", "I", "X", "=" >> \o tm.id
  \o << "&", "T", "I", "L", "E", "C", "O", "L", "=" >> \o IntToStr(column)
  \o << "&", "T", "I", "L", "E", "R", "O", "W", "=" >> \o IntToStr(row)

\* Mutants of the loop nest: rows outside, or the last column and row left out.
GetTileLoopRowOuter(tile_range) ==
  LET p == LoopPairs(RangeSeq(tile_range[2], tile_range[4] + 1),
                     RangeSeq(tile_range[1], tile_range[3] + 1))
  IN [k \in DOMAIN p |-> << p[k][2], p[k][1] >>]

GetTileLoopExclusive(tile_range) ==
  LoopPairs(RangeSeq(tile_range[1], tile_range[3]),
            RangeSeq(tile_range[2], tile_range[4]))

\* The (column, row) pairs of the two for loops, in visiting order.
GetTileLoop(tile_range) ==
  LoopPairs(RangeSeq(tile_range[1], tile_range[3] + 1),
            RangeSeq(tile_range[2], tile_range[4] + 1))

\* Mutants of the filter: the answer ignored, or the row and column swapped.
GetTileTestAlways(tm, container, column, row) ==
  [bbox_arg |-> << column, row >>,
   geom |-> Rectangle(tm_tile_to_bbox(tm, column, row)),
   add |-> TRUE]

GetTileTestSwapped(tm, container, column, row) ==
  LET tile_geom == Rectangle(tm_tile_to_bbox(tm, row, column))
  IN [bbox_arg |-> << row, column >>,
      geom |-> tile_geom,
      add |-> Intersects(container[1], tile_geom)]

\* The body of "if container is not None": the call to tm.tile_to_bbox, the
\* polygon built from its result, and the answer of container.Intersects.
GetTileTest(tm, container, column, row) ==
  LET tile_bbox == tm_tile_to_bbox(tm, column, row)
      tile_geom == Rectangle(tile_bbox)
  IN [bbox_arg |-> << column, row >>,
      geom |-> tile_geom,
      add |-> Intersects(container[1], tile_geom)]

\* Mutant: each element kept is put at the head of the list.
FilterSeqNewestFirst(seq, keep) ==
  LET kept == { k \in DOMAIN seq : keep[k] }
  IN [i \in 1..Cardinality(kept) |->
        seq[CHOOSE k \in kept : Cardinality({ j \in kept : j >= k }) = i]]

\* What the loops leave in a list: the elements of seq, in order, at the
\* indices where keep holds (list.append under an if in a for loop).
FilterSeq(seq, keep) ==
  LET kept == { k \in DOMAIN seq : keep[k] }
  IN [i \in 1..Cardinality(kept) |->
        seq[CHOOSE k \in kept : Cardinality({ j \in kept : j <= k }) = i]]

\* The sequences of a sequence, one after the other.
RECURSIVE Flatten(_)
Flatten(seqs) ==
  IF seqs = <<>> THEN <<>> ELSE Head(seqs) \o Flatten(Tail(seqs))

\* Mutant: the rectangle of each tile is built before the container is
\* looked at, with or without a container.
bbox_to_gettile_eager(tm, bbox, container) ==
  LET tile_range == tm_bbox_to_tiles(tm, bbox)
      pairs == GetTileLoop(tile_range)
      query == [k \in DOMAIN pairs |->
                  GetTileQuery(tm, pairs[k][1], pairs[k][2])]
      tile_geom == [k \in DOMAIN pairs |->
                      Rectangle(tm_tile_to_bbox(tm, pairs[k][1], pairs[k][2]))]
  IN [list |-> IF container # None
               THEN FilterSeq(query, [k \in DOMAIN pairs |->
                                        Intersects(container[1], tile_geom[k])])
               ELSE query,
      tm_calls |-> << [fn |-> "bbox_to_tiles", arg |-> bbox] >> \o
         [k \in DOMAIN pairs |-> [fn |-> "tile_to_bbox", arg |-> pairs[k]]],
      ogr_calls |-> tile_geom,
      raised |-> "none"]

\* bbox_to_gettile(tm, bbox, container): the list returned, with the calls
\* made to the tile matrix and to the container, in the order of the loops.
bbox_to_gettile(tm, bbox, container) ==
  LET tile_range == tm_bbox_to_tiles(tm, bbox)
      pairs == GetTileLoop(tile_range)
      query == [k \in DOMAIN pairs |->
                  GetTileQuery(tm, pairs[k][1], pairs[k][2])]
      first_call == << [fn |-> "bbox_to_tiles", arg |-> bbox] >>
  IN IF container # None
     THEN LET t == [k \in DOMAIN pairs |->
                      GetTileTest(tm, container, pairs[k][1], pairs[k][2])]
          IN [list |-> FilterSeq(query, [k \in DOMAIN pairs |-> t[k].add]),
              tm_calls |-> first_call \o
                 [k \in DOMAIN pairs |->
                    [fn |-> "tile_to_bbox", arg |-> t[k].bbox_arg]],
              ogr_calls |-> [k \in DOMAIN pairs |-> t[k].geom],
              raised |-> "none"]
     ELSE [list |-> query, tm_calls |-> first_call, ogr_calls |-> <<>>,
           raised |-> "none"]

(***************************************************************************)
(* bbox_to_slab_list                                                       *)
(***************************************************************************)
\* Mutant: columns and rows both divided by the slab width.
SlabRangeWidthOnly(tile_range, slab_size) ==
  << FloorDiv(tile_range[1], slab_size[1]),
     FloorDiv(tile_range[2], slab_size[1]),
     FloorDiv(tile_range[3], slab_size[1]),
     FloorDiv(tile_range[4], slab_size[1]) >>

\* slab_range = (min_col, min_row, max_col, max_row)
SlabRange(tile_range, slab_size) ==
  << FloorDiv(tile_range[1], slab_size[1]),
     FloorDiv(tile_range[2], slab_size[2]),
     FloorDiv(tile_range[3], slab_size[1]),
     FloorDiv(tile_range[4], slab_size[2]) >>

\* The (column, row) slab candidates of the two for loops, in visiting order.
SlabLoop(slab_range) ==
  LoopPairs(RangeSeq(slab_range[1], slab_range[3] + 1),
            RangeSeq(slab_range[2], slab_range[4] + 1))

\* The update of slab_bbox by one tile_bbox in the innermost loop.
SlabBboxMerge(slab_bbox, tile_bbox) ==
  IF Len(slab_bbox) = 0 THEN tile_bbox
  ELSE << IF slab_bbox[1] < tile_bbox[1] THEN tile_bbox[1] ELSE slab_bbox[1],
          IF slab_bbox[2] < tile_bbox[2] THEN tile_bbox[2] ELSE slab_bbox[2],
          IF slab_bbox[3] > tile_bbox[3] THEN tile_bbox[3] ELSE slab_bbox[3],
          IF slab_bbox[4] > tile_bbox[4] THEN tile_bbox[4] ELSE slab_bbox[4] >>

\* The loops over tile_col_range and tile_row_range for the slab
\* (column, row): every iteration calls tm.tile_to_bbox(column, row), with
\* the indices of the slab, and merges the result into slab_bbox.
RECURSIVE SlabBboxFold(_, _, _, _, _, _)
SlabBboxFold(tm, column, row, tiles, k, slab_bbox) ==
  IF k > Len(tiles) THEN slab_bbox
  ELSE SlabBboxFold(tm, column, row, tiles, k + 1,
         SlabBboxMerge(slab_bbox, tm_tile_to_bbox(tm, column, row)))

\* Mutant: the slab passes the test whatever the container answers.
SlabTestAlways(tm, slab_size, container, column, row) ==
  [bbox_args |-> <<>>,
   geom |-> Rectangle(tm_tile_to_bbox(tm, column, row)),
   add |-> TRUE]

\* The body of "if container is not None" for the slab (column, row): the
\* calls to tm.tile_to_bbox, the polygon built from slab_bbox, and the
\* answer of container.Intersects.
SlabTest(tm, slab_size, container, column, row) ==
  LET tile_col_range == RangeSeq(column * slab_size[1],
                                 (column + 1) * slab_size[1])
      tile_row_range == RangeSeq(row * slab_size[2],
                                 (row + 1) * slab_size[2])
      tiles == LoopPairs(tile_col_range, tile_row_range)
      slab_bbox == SlabBboxFold(tm, column, row, tiles, 1, <<>>)
      slab_geom == Rectangle(slab_bbox)
  IN [bbox_args |-> [k \in DOMAIN tiles |-> << column, row >>],
      geom |-> slab_geom,
      add |-> Intersects(container[1], slab_geom)]

\* bbox_to_slab_list(tm, bbox, slab_size, container): the list returned,
\* with the calls made to the tile matrix and to the container, in the
\* order of the loops.  A slab size with a zero raises ZeroDivisionError in
\* the computation of slab_range, after the call to tm.bbox_to_tiles.
bbox_to_slab_list(tm, bbox, slab_size, container) ==
  LET tile_range == tm_bbox_to_tiles(tm, bbox)
      slab_range == SlabRange(tile_range, slab_size)
      pairs == SlabLoop(slab_range)
      first_call == << [fn |-> "bbox_to_tiles", arg |-> bbox] >>
  IN IF slab_size[1] = 0 \/ slab_size[2] = 0
     THEN [list |-> <<>>, tm_calls |-> first_call, ogr_calls |-> <<>>,
           raised |-> "ZeroDivisionError"]
     ELSE IF container # None
     THEN LET t == [k \in DOMAIN pairs |->
                      SlabTest(tm, slab_size, container,
                               pairs[k][1], pairs[k][2])]
              args == Flatten([k \in DOMAIN pairs |-> t[k].bbox_args])
          IN [list |-> FilterSeq(pairs, [k \in DOMAIN pairs |-> t[k].add]),
              tm_calls |-> first_call \o
                 [k \in DOMAIN args |->
                    [fn |-> "tile_to_bbox", arg |-> args[k]]],
              ogr_calls |-> [k \in DOMAIN pairs |-> t[k].geom],
              raised |-> "none"]
     ELSE [list |-> pairs, tm_calls |-> first_call, ogr_calls |-> <<>>,
           raised |-> "none"]

(***************************************************************************)
(* State.                                                                  *)
(***************************************************************************)
VARIABLES
  call,    \* the arguments of a direct call to one of the two enumerators
  ret,     \* what that call returned, with the calls it made
  epc,     \* "ready" before the call, "returned" after it
  args,    \* the dictionary main receives
  file,    \* the file or object at the path of the input, in the storage
  m,       \* the frame of main: its position and its local variables
  log,     \* the calls main made to its collaborators, in order
  stdout,  \* what was printed
  run,     \* 1 in the first invocation of main, 2 in the second
  first    \* what the first invocation printed and raised

enum_vars == << call, ret, epc >>

main_vars == << args, file, m, log, stdout, run, first >>

vars == << call, ret, epc, args, file, m, log, stdout, run, first >>

\* The frame of main before its first statement.
Frame0 ==
  [pc |-> "slabsize", raised |-> "none", slab_size |-> None, tms |-> None,
   tm |-> None, input_parts |-> None, output_parts |-> None, bbox |-> None,
   bbox_list |-> <<>>, i |-> 1, acc |-> <<>>, geometry_full |-> None,
   at |-> "none", exit_code |-> None, message |-> None]

Log0 == [tm |-> <<>>, ogr |-> <<>>, ext |-> <<>>, enum |-> <<>>]

NoFile == [exists |-> FALSE, text |-> <<>>, geometry |-> None]

NoArgs ==
  [tms_name |-> <<>>, input |-> <<>>, output |-> <<>>, level |-> None,
   slabsize |-> None]

\* The variables of main while the enumerators are called directly.
MainIdle ==
  /\ args = NoArgs
  /\ file = NoFile
  /\ m = [Frame0 EXCEPT !.pc = "idle"]
  /\ log = Log0
  /\ stdout = <<>>
  /\ run = 1
  /\ first = None

\* The variables of the direct calls while main runs.
EnumIdle ==
  /\ call = [fn |-> "none"]
  /\ ret = [list |-> <<>>, tm_calls |-> <<>>, ogr_calls |-> <<>>,
            raised |-> "none"]
  /\ epc = "idle"

(***************************************************************************)
(* The enumerators called directly, as the unit tests call them.           *)
(***************************************************************************)
\* (min_col, min_row, max_col, max_row) the stubbed tm.bbox_to_tiles may
\* return; a range with max < min is empty.
TileRanges ==
  { << c1, r1, c2, r2 >> : c1 \in 0..MaxCol, r1 \in 0..MaxRow,
                           c2 \in 0..MaxCol, r2 \in 0..MaxRow }

SlabSizes == { << w, h >> : w \in 1..MaxSlabW, h \in 1..MaxSlabH }

EnumBBoxes == { << 0, -6, 8, 0 >>, << 2, -4, 6, -2 >> }

\* Geometries a caller may pass as container.  Tiles are 2 units wide, so a
\* box with odd coordinates never merely touches a tile.
EnumGeometries ==
  { [parts |-> << << 1, -1, 1, -1 >> >>],
    [parts |-> << << 3, -3, 5, -1 >> >>],
    [parts |-> << << 5, -3, 7, -3 >> >>],
    [parts |-> << << 1, -5, 1, -5 >>, << 7, -1, 7, -1 >> >>] }

EnumContainers == { None } \cup { Some(g) : g \in EnumGeometries }

\* The TileMatrix stub of a test: bbox_to_tiles returns tile_range.
EnumTileMatrix(tile_range) ==
  [id |-> << "1", "3" >>,
   tiles |-> [b \in EnumBBoxes |-> tile_range],
   x0 |-> 0, y0 |-> 0, res |-> 2]

EnumInit ==
  /\ call \in
       { [fn |-> "bbox_to_gettile", tm |-> EnumTileMatrix(tr), bbox |-> b,
          slab_size |-> None, container |-> c] :
           tr \in TileRanges, b \in EnumBBoxes, c \in EnumContainers }
       \cup
       { [fn |-> "bbox_to_slab_list", tm |-> EnumTileMatrix(tr), bbox |-> b,
          slab_size |-> Some(sz), container |-> c] :
           tr \in TileRanges, b \in EnumBBoxes, c \in EnumContainers,
           sz \in SlabSizes }
  /\ ret = [list |-> <<>>, tm_calls |-> <<>>, ogr_calls |-> <<>>,
            raised |-> "none"]
  /\ epc = "ready"
  /\ MainIdle

CallGetTile ==
  /\ epc = "ready"
  /\ call.fn = "bbox_to_gettile"
  /\ ret' = bbox_to_gettile(call.tm, call.bbox, call.container)
  /\ epc' = "returned"
  /\ UNCHANGED << call, main_vars >>

CallSlabList ==
  /\ epc = "ready"
  /\ call.fn = "bbox_to_slab_list"
  /\ ret' = bbox_to_slab_list(call.tm, call.bbox, call.slab_size[1],
                              call.container)
  /\ epc' = "returned"
  /\ UNCHANGED << call, main_vars >>

EnumNext == CallGetTile \/ CallSlabList

SpecEnum == EnumInit /\ [][EnumNext]_vars

(***************************************************************************)
(* Reading the output back.                                                *)
(***************************************************************************)
\* The fields of s between the occurrences of the character sep.
RECURSIVE Split(_, _)
Split(s, sep) ==
  IF \A i \in DOMAIN s : s[i] # sep THEN << s >>
  ELSE LET i == CHOOSE j \in DOMAIN s :
                  s[j] = sep /\ \A k \in 1..(j - 1) : s[k] # sep
       IN << SubSeq(s, 1, i - 1) >> \o Split(SubSeq(s, i + 1, Len(s)), sep)

\* The value of the field "KEY=value" number n of a query string.
QueryValue(q, n) == Split(Split(q, "&")[n], "=")[2]

\* The (column, row) of "TILEMATRIX=<id>&TILECOL=<column>&TILEROW=<row>".
TileOfQuery(q) ==
  << DigitsToNat(QueryValue(q, 2)), DigitsToNat(QueryValue(q, 3)) >>

\* The (column, row) of a line "<column>,<row>".
SlabOfLine(line) ==
  << DigitsToNat(Split(line, ",")[1]), DigitsToNat(Split(line, ",")[2]) >>


(***************************************************************************)
(* Argument and input parsing of main.                                     *)
(***************************************************************************)
\* What "$" of re lets through at the end of a pattern: the end of the
\* string, or one line feed that ends the string.  The string without it.
DollarStrip(s) ==
  IF s # <<>> /\ s[Len(s)] = "\n" THEN SubSeq(s, 1, Len(s) - 1) ELSE s

AllDigits(s) == s # <<>> /\ \A i \in DOMAIN s : IsDigit(s[i])

IsUpperOrUnderscore(ch) == Ord(ch) >= Ord("A") /\ Ord(ch) <= Ord("_")

\* re.search("^([A-Z_]+)(?::(.*))?$", s).groups(): << kind, payload >> with
\* payload None without a colon, or None when the string does not match.
FormatParts(s) ==
  LET t == DollarStrip(s)
      colons == { i \in DOMAIN t : t[i] = ":" }
      n == IF colons = {} THEN Len(t) ELSE MinOf(colons) - 1
      kind == SubSeq(t, 1, n)
  IN IF /\ kind # <<>>
        /\ \A i \in DOMAIN kind : IsUpperOrUnderscore(kind[i])
        /\ \A i \in DOMAIN t : t[i] # "\n"
     THEN Some(<< kind,
                  IF colons = {} THEN None
                  ELSE Some(SubSeq(t, n + 2, Len(t))) >>)
     ELSE None

\* re.search("^([0-9]+)x([0-9]+)$", s) and the two int(): the slab size, or
\* None when the string does not match.
SlabSizeOfString(s) ==
  LET f == Split(DollarStrip(s), "x")
  IN IF Len(f) = 2 /\ AllDigits(f[1]) /\ AllDigits(f[2])
     THEN Some(<< DigitsToNat(f[1]), DigitsToNat(f[2]) >>)
     ELSE None

\* coord_pattern "-?[0-9]+(?:[.][0-9]+)?" matched against a whole field.
IsCoord(f) ==
  LET u == IF f # <<>> /\ f[1] = "-" THEN Tail(f) ELSE f
      d == Split(u, ".")
  IN Len(d) \in {1, 2} /\ \A i \in DOMAIN d : AllDigits(d[i])

\* float(f) of a matched field.  Coordinates are held in tenths of a unit:
\* the strings of the model carry at most one decimal.
FloatOfString(f) ==
  LET neg == f[1] = "-"
      d == Split(IF neg THEN Tail(f) ELSE f, ".")
      tenths == 10 * DigitsToNat(d[1])
                + (IF Len(d) = 2 THEN DigitVal(d[2][1]) ELSE 0)
  IN IF neg THEN 0 - tenths ELSE tenths

\* Mutant: the groups of the match read in the order 1, 3, 2, 4.
read_bbox_swapped(bbox_str) ==
  LET f == Split(DollarStrip(bbox_str), ",")
  IN IF Len(f) = 4 /\ \A i \in DOMAIN f : IsCoord(f[i])
     THEN Some(<< FloatOfString(f[1]), FloatOfString(f[3]),
                  FloatOfString(f[2]), FloatOfString(f[4]) >>)
     ELSE None

\* read_bbox(bbox_str): the bbox, or None where the code raises ValueError.
\* bbox_pattern ends with "$", see DollarStrip.
read_bbox(bbox_str) ==
  LET f == Split(DollarStrip(bbox_str), ",")
  IN IF Len(f) = 4 /\ \A i \in DOMAIN f : IsCoord(f[i])
     THEN Some(<< FloatOfString(f[1]), FloatOfString(f[2]),
                  FloatOfString(f[3]), FloatOfString(f[4]) >>)
     ELSE None

\* str.splitlines(): the pieces between line feeds, without a last empty one.
SplitLines(text) ==
  LET f == Split(text, "\n")
  IN IF f[Len(f)] = <<>> THEN SubSeq(f, 1, Len(f) - 1) ELSE f

\* sep.join(list)
Join(list, sep) ==
  Flatten([k \in DOMAIN list |-> IF k = 1 THEN list[k] ELSE sep \o list[k]])

\* f"{slab[0]},{slab[1]}"
SlabString(slab) == IntToStr(slab[1]) \o << "," >> \o IntToStr(slab[2])

\* repr of a float held in tenths, as an f-string prints it.
FloatToStr(v) ==
  LET a == IF v < 0 THEN 0 - v ELSE v
  IN (IF v < 0 THEN << "-" >> ELSE <<>>)
     \o NatToStr(a \div 10) \o << "." >> \o NatToStr(a % 10)

\* list.sort(): the elements in ascending order, equal elements in their
\* order of arrival; less[i][j] tells whether seq[i] < seq[j].
SortList(seq, less) ==
  LET rank == [i \in DOMAIN seq |->
                 1 + Cardinality({ j \in DOMAIN seq :
                       \/ less[j][i]
                       \/ ~less[i][j] /\ j < i })]
  IN [r \in DOMAIN seq |-> seq[CHOOSE i \in DOMAIN seq : rank[i] = r]]

\* Mutant: the list is left in its order of arrival.
SortTuplesArrival(seq) == seq

\* list.sort() on a list of tuples of integers.
SortTuples(seq) ==
  SortList(seq, [i \in DOMAIN seq |->
                   [j \in DOMAIN seq |-> TupleLess(seq[i], seq[j])]])

\* list.sort() on a list of strings.
SortStrings(seq) ==
  SortList(seq, [i \in DOMAIN seq |->
                   [j \in DOMAIN seq |-> StrLess(seq[i], seq[j])]])

\* Mutant: every element of the new list is appended.
AppendNewAll(list, new) == list \o new

\* "for x in new: if x not in list: list.append(x)"
AppendNew(list, new) ==
  list \o FilterSeq(new, [k \in DOMAIN new |->
                           /\ ~InList(new[k], list)
                           /\ \A j \in 1..(k - 1) : new[j] # new[k]])


(***************************************************************************)
(* read_bbox called directly, as the unit tests call it.                   *)
(***************************************************************************)
\* Lines 85-87: the message of the ValueError, the one of the caller when
\* there is one.
read_bbox_message(bbox_str, error_message) ==
  IF error_message = None
  THEN << "I", "n", "v", "a", "l", "i", "d", " ", "B", "B", "O", "X", ":", " " >> \o bbox_str
       \o << "\n", "E", "x", "p", "e", "c", "t", "e", "d", " ", "B", "B", "O",
            "X", " ", "f", "o", "r", "m", "a", "t", " ", "i", "s", " " >>
       \o << "<", "m", "i", "n", "_", "a", "x", "i", "s", "_", "1", ">", ",",
            "<", "m", "i", "n", "_", "a", "x", "i", "s", "_", "2", ">", ",",
            "<", "m", "a", "x", "_", "a", "x", "i", "s", "_", "1", ">", ",",
            "<", "m", "a", "x", "_", "a", "x", "i", "s", "_", "2", ">" >>
  ELSE error_message[1]

\* The most fields, between commas, of the strings read_bbox is called on.
MaxFields == 4

\* Fields that are numbers of the pattern, and fields that are not.
CoordFields ==
  { << "7" >>, << "-", "2" >>, << "1", ".", "5" >>,
    <<>>, << "1", "." >>, << "-" >> }

\* What follows the last field: nothing, one line feed, two.
BboxStrEnds == { <<>>, << "\n" >>, << "\n", "\n" >> }

ReadBboxStrings ==
  { Join(fields, << "," >>) \o e :
      fields \in UNION { [1..n -> CoordFields] : n \in 1..MaxFields },
      e \in BboxStrEnds }

ErrorMessages == { None, Some(<< "T", "h", "i", "s", " ", "i", "s", " ", "t",
     "h", "e", " ", "e", "x", "p", "e", "c", "t", "e", "d", " ", "e", "r",
     "r", "o", "r", " ", "m", "e", "s", "s", "a", "g", "e", "." >>) }

ReadBboxInit ==
  /\ call \in { [fn |-> "read_bbox", bbox_str |-> str, error_message |-> msg] :
                  str \in ReadBboxStrings, msg \in ErrorMessages }
  /\ ret = [value |-> None, raised |-> "none", message |-> None]
  /\ epc = "ready"
  /\ MainIdle

CallReadBbox ==
  /\ epc = "ready"
  /\ call.fn = "read_bbox"
  /\ LET bbox == read_bbox(call.bbox_str)
     IN ret' = IF bbox = None
               THEN [value |-> None, raised |-> "ValueError",
                     message |-> Some(read_bbox_message(call.bbox_str,
                                                        call.error_message))]
               ELSE [value |-> bbox, raised |-> "none", message |-> None]
  /\ epc' = "returned"
  /\ UNCHANGED << call, main_vars >>

SpecReadBbox == ReadBboxInit /\ [][CallReadBbox]_vars

(***************************************************************************)
(* Collaborators of main, stubbed: the tile matrix sets, the storage and   *)
(* the geometry parsers.                                                   *)
(***************************************************************************)
S_BBOX == << "B", "B", "O", "X" >>
S_BBOXES_LIST == << "B", "B", "O", "X", "E", "S", "_", "L", "I", "S", "T" >>
S_GEOM_FILE == << "G", "E", "O", "M", "_", "F", "I", "L", "E" >>
S_TILE_INDICE == << "T", "I", "L", "E", "_", "I", "N", "D", "I", "C", "E" >>
S_GETTILE_PARAMS == << "G", "E", "T", "T", "I", "L", "E", "_", "P", "A", "R", "A", "M", "S" >>
S_SLAB_INDICES == << "S", "L", "A", "B", "_", "I", "N", "D", "I", "C", "E", "S" >>
S_GETMAP_PARAMS == << "G", "E", "T", "M", "A", "P", "_", "P", "A", "R", "A", "M", "S" >>
S_PM == << "P", "M" >>
S_15 == << "1", "5" >>
NL == << "\n" >>

\* The level "15" of the tile matrix set: tiles of 2 units (20 tenths) from
\* the origin (0, 0), of 256 x 127 pixels.
Level15 ==
  [id |-> S_15, tiles |-> <<>>, x0 |-> 0, y0 |-> 0, res |-> 20,
   tile_size |-> << 256, 127 >>]

\* TileMatrixSet(name): the tile matrix set "PM", or None where the
\* constructor raises because there is no such tile matrix set.
TileMatrixSet(name) ==
  IF name = S_PM
   THEN Some([name |-> S_PM, level_ids |-> { S_15 },
              srs |-> << "E", "P", "S", "G", ":", "3", "8", "5", "7" >>])
  ELSE None

\* tms.get_level(level): the tile matrix, or None for an unknown level.
get_level(tms, level) == IF level \in tms.level_ids THEN Some(Level15) ELSE None

\* ogr.CreateGeometryFromGml / Json / Wkb / Wkt on the content of a file: the
\* geometry when the content is in that format, None where the parser raises.
CreateGeometryFrom(format, content) ==
  IF content # None /\ content[1].format = format THEN content ELSE None

\* Mutant: content that no parser reads is taken for an empty geometry.
ParseGeometryLenient(content) ==
  IF content = None
  THEN Some([format |-> "WKT", valid |-> TRUE, parts |-> <<>>])
  ELSE content

\* Mutant: the parsers are tried from WKT to GML.
ProbeOrderWktFirst == << "WKT", "JSON", "WKB", "GML" >>

\* Lines 341-351: the parsers in the order of the nested try statements,
\* CreateGeometryFromGML, FromJson, FromWkb, FromWkt.
ProbeOrder == << "GML", "JSON", "WKB", "WKT" >>

\* The parsers that read the content, by their rank in ProbeOrder.
ProbesOk(content) ==
  { k \in DOMAIN ProbeOrder : CreateGeometryFrom(ProbeOrder[k], content) # None }

\* The try / except cascade over the four parsers.
ParseGeometry(content) ==
  IF ProbesOk(content) = {} THEN None
  ELSE CreateGeometryFrom(ProbeOrder[MinOf(ProbesOk(content))], content)

\* The calls the cascade makes: each parser in turn until one returns.
ProbeCalls(content) ==
  LET n == IF ProbesOk(content) = {} THEN Len(ProbeOrder)
           ELSE MinOf(ProbesOk(content))
  IN [k \in 1..n |-> [fn |-> "CreateGeometryFrom", arg |-> ProbeOrder[k]]]

\* Lines 354 and 356-358: the text of the GeometryError of a content that no
\* parser reads, before and after the path.
UnhandledFormatHead ==
  << "I", "n", "p", "u", "t", " ", "g", "e", "o", "m", "e", "t", "r", "y",
     " ", "e", "r", "r", "o", "r", " ", "i", "n", " ", "f", "i", "l", "e",
     " ", "'" >>

UnhandledFormatTail ==
  << "'", ":", " ", "u", "n", "h", "a", "n", "d", "l", "e", "d", " ", "f",
     "o", "r", "m", "a", "t", " ", "o", "r", " ", "i", "n", "v", "a", "l",
     "i", "d", " ", "d", "a", "t", "a", ".", " ", "H", "a", "n", "d", "l",
     "e", "d", " ", "f", "o", "r", "m", "a", "t", "s", " ", "a", "r", "e",
     ":", " ", "G", "M", "L", ",", " ", "G", "e", "o", "J", "S", "O", "N",
     ",", " ", "W", "K", "B", ",", " ", "W", "K", "T", "." >>

\* Line 361: the text of the GeometryError of an invalid geometry, before its
\* description.
InvalidGeometryHead ==
  << "I", "n", "v", "a", "l", "i", "d", " ", "i", "n", "p", "u", "t", " ",
     "g", "e", "o", "m", "e", "t", "r", "y", ".", " ", "W", "K", "T", " ",
     "d", "e", "s", "c", "r", "i", "p", "t", "i", "o", "n", ":", " ", "'" >>

\* geometry.ExportToWkt(): a text made of the coordinates of the parts.
ExportToWkt(geometry) ==
  LET p == geometry.parts
  IN << "(" >>
     \o Join([k \in DOMAIN p |->
                FloatToStr(p[k][1]) \o << " " >> \o FloatToStr(p[k][2])
                  \o << " " >> \o FloatToStr(p[k][3]) \o << " " >>
                  \o FloatToStr(p[k][4])], << "," >>)
     \o << ")" >>

\* Lines 353-359: the message of the GeometryError of an unread content.
UnhandledFormatMessage(path) ==
  UnhandledFormatHead \o path \o UnhandledFormatTail

\* Lines 361-362: the message of the GeometryError of an invalid geometry.
InvalidGeometryMessage(geometry) ==
  InvalidGeometryHead \o ExportToWkt(geometry) \o << "'" >>

\* geometry_part.GetEnvelope(): (min_x, max_x, min_y, max_y).
GetEnvelope(part) == << part[1], part[3], part[2], part[4] >>

\* Mutant: the envelope taken for (min_x, min_y, max_x, max_y) as it comes.
EnvelopeBboxUnordered(part) == GetEnvelope(part)

\* "(min_x, max_x, min_y, max_y) = geometry_part.GetEnvelope()" and the bbox
\* (min_x, min_y, max_x, max_y) appended to bbox_list.
EnvelopeBbox(part) ==
  LET e == GetEnvelope(part)
  IN << e[1], e[3], e[2], e[4] >>

(***************************************************************************)
(* main, one action for each stretch of its code.                          *)
(***************************************************************************)
\* "raise exception": main ends there; "at" keeps the statement that raised.
Raise(frame, exception) ==
  [frame EXCEPT !.pc = "raised", !.raised = exception, !.at = frame.pc]

Ext(fn, arg) == [fn |-> fn, arg |-> arg]

\* Mutant: the content is fetched before the existence is probed.
FetchCallsFetchFirst(uri) == << Ext("get_data_str", uri), Ext("exists", uri) >>

\* "if not exists(uri): raise ..." passed, then get_data_str(uri).
FetchCalls(uri) == << Ext("exists", uri), Ext("get_data_str", uri) >>

\* What a call to an enumerator leaves in the log of main.
LogCall(fn, bbox, slab_size, container, r) ==
  [log EXCEPT !.tm = @ \o r.tm_calls,
              !.ogr = @ \o r.ogr_calls,
              !.enum = Append(@, [fn |-> fn, bbox |-> bbox,
                                  slab_size |-> slab_size,
                                  container |-> container, list |-> r.list])]

\* print("\n".join(list), end="\n")
PrintJoined(list) == Join(list, NL) \o NL

\* "for x in list: print(x)" on lines already formatted.
PrintEach(list) == Flatten([k \in DOMAIN list |-> list[k] \o NL])

\* Lines 251-263: the slab size read from args["slabsize"].
ParseSlabSize ==
  /\ m.pc = "slabsize"
  /\ LET given == args.slabsize # None /\ args.slabsize[1] # <<>>
         parsed == SlabSizeOfString(args.slabsize[1])
     IN m' = IF ~given THEN [m EXCEPT !.pc = "tms"]
             ELSE IF parsed # None
             THEN [m EXCEPT !.pc = "tms", !.slab_size = parsed]
             ELSE Raise(m, "ValueError")
  /\ UNCHANGED << args, file, log, stdout, run, first, enum_vars >>

\* Lines 265-276: the tile matrix set and the two positional arguments; any
\* exception there is turned into ValueError.
LoadTms ==
  /\ m.pc = "tms"
  /\ LET tms == TileMatrixSet(args.tms_name)
         input_parts == FormatParts(args.input)
         output_parts == FormatParts(args.output)
     IN m' = IF tms = None \/ input_parts = None \/ output_parts = None
             THEN Raise(m, "ValueError")
             ELSE [m EXCEPT !.pc = "level", !.tms = tms,
                            !.input_parts = input_parts[1],
                            !.output_parts = output_parts[1]]
  /\ log' = [log EXCEPT !.ext = Append(@, Ext("TileMatrixSet", args.tms_name))]
  /\ UNCHANGED << args, file, stdout, run, first, enum_vars >>

\* Lines 277-279: the tile matrix of the level, when a level is given.
GetLevel ==
  /\ m.pc = "level"
  /\ LET given == args.level # None /\ args.level[1] # <<>>
     IN /\ m' = IF given
                THEN [m EXCEPT !.pc = "implemented",
                               !.tm = get_level(m.tms[1], args.level[1])]
                ELSE [m EXCEPT !.pc = "implemented"]
        /\ log' = IF given
                  THEN [log EXCEPT !.ext = Append(@, Ext("get_level", args.level[1]))]
                  ELSE log
  /\ UNCHANGED << args, file, stdout, run, first, enum_vars >>

\* The dictionary "implemented".
Implemented(input_kind, output_kind) ==
  \/ input_kind = S_BBOX /\ output_kind \in { S_GETTILE_PARAMS, S_SLAB_INDICES }
  \/ input_kind = S_BBOXES_LIST /\ output_kind = S_SLAB_INDICES
  \/ input_kind = S_GEOM_FILE /\ output_kind \in { S_GETTILE_PARAMS, S_SLAB_INDICES }
  \/ input_kind = S_TILE_INDICE /\ output_kind = S_GETMAP_PARAMS

\* Lines 281-284 and the if / elif on input_parts[0] at 286, 309, 333, 391.
CheckImplemented ==
  /\ m.pc = "implemented"
  /\ LET input_kind == m.input_parts[1]
         output_kind == m.output_parts[1]
     IN m' = IF ~Implemented(input_kind, output_kind)
             THEN Raise(m, "RuntimeError")
             ELSE IF input_kind = S_BBOX THEN [m EXCEPT !.pc = "bbox"]
             ELSE IF input_kind = S_BBOXES_LIST /\ output_kind = S_SLAB_INDICES
             THEN [m EXCEPT !.pc = "list"]
             ELSE IF input_kind = S_GEOM_FILE THEN [m EXCEPT !.pc = "geom"]
             ELSE IF input_kind = S_TILE_INDICE THEN [m EXCEPT !.pc = "tile"]
             ELSE [m EXCEPT !.pc = "done"]
  /\ UNCHANGED << args, file, log, stdout, run, first, enum_vars >>

\* Lines 286-293: the bbox of a BBOX input.
BboxRead ==
  /\ m.pc = "bbox"
  /\ LET payload == m.input_parts[2]
     IN m' = IF payload = None THEN Raise(m, "ValueError")
             ELSE IF read_bbox(payload[1]) = None THEN Raise(m, "ValueError")
             ELSE [m EXCEPT !.pc = "bbox_out", !.bbox = read_bbox(payload[1])]
  /\ UNCHANGED << args, file, log, stdout, run, first, enum_vars >>

\* Lines 295-298: BBOX to GETTILE_PARAMS.
BboxToGetTile ==
  /\ m.pc = "bbox_out"
  /\ m.output_parts[1] = S_GETTILE_PARAMS
  /\ IF m.tm = None
     THEN /\ m' = Raise(m, "AttributeError")
          /\ UNCHANGED << log, stdout >>
     ELSE LET r == bbox_to_gettile(m.tm[1], m.bbox[1], None)
          IN /\ log' = LogCall("bbox_to_gettile", m.bbox[1], None, None, r)
             /\ stdout' = stdout \o PrintJoined(r.list)
             /\ m' = [m EXCEPT !.pc = "done"]
  /\ UNCHANGED << args, file, run, first, enum_vars >>

\* Lines 300-307: BBOX to SLAB_INDICES.
BboxToSlabs ==
  /\ m.pc = "bbox_out"
  /\ m.output_parts[1] = S_SLAB_INDICES
  /\ IF m.slab_size = None
     THEN /\ m' = Raise(m, "ValueError")
          /\ UNCHANGED << log, stdout >>
     ELSE IF m.tm = None
     THEN /\ m' = Raise(m, "AttributeError")
          /\ UNCHANGED << log, stdout >>
     ELSE LET r == bbox_to_slab_list(m.tm[1], m.bbox[1], m.slab_size[1], None)
          IN /\ log' = LogCall("bbox_to_slab_list", m.bbox[1], m.slab_size,
                               None, r)
             /\ IF r.raised # "none"
                THEN /\ m' = Raise(m, r.raised)
                     /\ UNCHANGED stdout
                ELSE /\ stdout' = stdout \o
                          PrintEach([k \in DOMAIN r.list |-> SlabString(r.list[k])])
                     /\ m' = [m EXCEPT !.pc = "done"]
  /\ UNCHANGED << args, file, run, first, enum_vars >>

\* Lines 309-322: BBOXES_LIST to SLAB_INDICES, up to the loop on the lines.
ListOpen ==
  /\ m.pc = "list"
  /\ LET payload == m.input_parts[2]
     IN IF payload = None \/ m.slab_size = None
        THEN /\ m' = Raise(m, "ValueError")
             /\ UNCHANGED log
        ELSE IF ~file.exists
        THEN /\ m' = Raise(m, "FileNotFoundError")
             /\ log' = [log EXCEPT !.ext = Append(@, Ext("exists", payload[1]))]
        ELSE /\ m' = [m EXCEPT !.pc = "list_loop", !.i = 1, !.acc = <<>>,
                               !.bbox_list = SplitLines(file.text)]
             /\ log' = [log EXCEPT !.ext = @ \o FetchCalls(payload[1])]
  /\ UNCHANGED << args, file, stdout, run, first, enum_vars >>

\* Mutant: the slabs of a line are printed as soon as they are returned.
ListLineStreaming ==
  /\ m.pc = "list_loop"
  /\ m.i <= Len(m.bbox_list)
  /\ LET bbox == read_bbox(m.bbox_list[m.i])
     IN IF bbox = None
        THEN /\ m' = Raise(m, "ValueError")
             /\ UNCHANGED << log, stdout >>
        ELSE IF m.tm = None
        THEN /\ m' = Raise(m, "AttributeError")
             /\ UNCHANGED << log, stdout >>
        ELSE LET r == bbox_to_slab_list(m.tm[1], bbox[1], m.slab_size[1], None)
             IN /\ log' = LogCall("bbox_to_slab_list", bbox[1], m.slab_size,
                                  None, r)
                /\ stdout' = stdout \o
                     PrintEach([k \in DOMAIN r.list |-> SlabString(r.list[k])])
                /\ m' = IF r.raised # "none" THEN Raise(m, r.raised)
                        ELSE [m EXCEPT !.i = @ + 1,
                                       !.acc = AppendNew(@, r.list)]
  /\ UNCHANGED << args, file, run, first, enum_vars >>

\* Lines 323-328: one turn of the loop on the lines of the list.
ListLine ==
  /\ m.pc = "list_loop"
  /\ m.i <= Len(m.bbox_list)
  /\ LET bbox == read_bbox(m.bbox_list[m.i])
     IN IF bbox = None
        THEN /\ m' = Raise(m, "ValueError")
             /\ UNCHANGED log
        ELSE IF m.tm = None
        THEN /\ m' = Raise(m, "AttributeError")
             /\ UNCHANGED log
        ELSE LET r == bbox_to_slab_list(m.tm[1], bbox[1], m.slab_size[1], None)
             IN /\ log' = LogCall("bbox_to_slab_list", bbox[1], m.slab_size,
                                  None, r)
                /\ m' = IF r.raised # "none" THEN Raise(m, r.raised)
                        ELSE [m EXCEPT !.i = @ + 1,
                                       !.acc = AppendNew(@, r.list)]
  /\ UNCHANGED << args, file, stdout, run, first, enum_vars >>

\* Lines 329-331: slabs_list.sort() on the tuples, then
\* print(slab[0], slab[1], sep=',') for each.
ListEmit ==
  /\ m.pc = "list_loop"
  /\ m.i > Len(m.bbox_list)
  /\ LET slabs_list == SortTuples(m.acc)
     IN /\ stdout' = stdout \o
             PrintEach([k \in DOMAIN slabs_list |-> SlabString(slabs_list[k])])
        /\ m' = [m EXCEPT !.pc = "done", !.acc = slabs_list]
  /\ UNCHANGED << args, file, log, run, first, enum_vars >>

\* Lines 333-362: the geometry file read, parsed and validated.
GeomOpen ==
  /\ m.pc = "geom"
  /\ LET payload == m.input_parts[2]
         geometry_full == ParseGeometry(file.geometry)
     IN IF payload = None
        THEN /\ m' = Raise(m, "ValueError")
             /\ UNCHANGED log
        ELSE IF ~file.exists
        THEN /\ m' = Raise(m, "FileNotFoundError")
             /\ log' = [log EXCEPT !.ext = Append(@, Ext("exists", payload[1]))]
        ELSE /\ log' = [log EXCEPT !.ext = @ \o FetchCalls(payload[1])
                                           \o ProbeCalls(file.geometry)]
             /\ m' = IF geometry_full = None
                     THEN [Raise(m, "GeometryError") EXCEPT !.message =
                             Some(UnhandledFormatMessage(payload[1]))]
                     ELSE IF ~geometry_full[1].valid
                     THEN [Raise(m, "GeometryError") EXCEPT !.message =
                             Some(InvalidGeometryMessage(geometry_full[1]))]
                     ELSE [m EXCEPT !.pc = "geom_env",
                                    !.geometry_full = geometry_full]
  /\ UNCHANGED << args, file, stdout, run, first, enum_vars >>

\* Lines 363-368 and 376-380: the envelope of each part, and the slab size
\* required for SLAB_INDICES.
GeomEnvelopes ==
  /\ m.pc = "geom_env"
  /\ LET parts == m.geometry_full[1].parts
         bbox_list == [k \in DOMAIN parts |-> EnvelopeBbox(parts[k])]
     IN m' = IF m.output_parts[1] = S_SLAB_INDICES /\ m.slab_size = None
             THEN Raise([m EXCEPT !.bbox_list = bbox_list], "ValueError")
             ELSE [m EXCEPT !.pc = "geom_loop", !.i = 1, !.acc = <<>>,
                            !.bbox_list = bbox_list]
  /\ UNCHANGED << args, file, log, stdout, run, first, enum_vars >>

\* Lines 371-375: one turn of the loop on bbox_list, GETTILE_PARAMS.
GeomStepGetTile ==
  /\ m.pc = "geom_loop"
  /\ m.i <= Len(m.bbox_list)
  /\ m.output_parts[1] = S_GETTILE_PARAMS
  /\ IF m.tm = None
     THEN /\ m' = Raise(m, "AttributeError")
          /\ UNCHANGED log
     ELSE LET bbox == m.bbox_list[m.i]
              r == bbox_to_gettile(m.tm[1], bbox, m.geometry_full)
          IN /\ log' = LogCall("bbox_to_gettile", bbox, None,
                               m.geometry_full, r)
             /\ m' = [m EXCEPT !.i = @ + 1, !.acc = AppendNew(@, r.list)]
  /\ UNCHANGED << args, file, stdout, run, first, enum_vars >>

\* Lines 381-387: one turn of the loop on bbox_list, SLAB_INDICES.
GeomStepSlabs ==
  /\ m.pc = "geom_loop"
  /\ m.i <= Len(m.bbox_list)
  /\ m.output_parts[1] = S_SLAB_INDICES
  /\ IF m.tm = None
     THEN /\ m' = Raise(m, "AttributeError")
          /\ UNCHANGED log
     ELSE LET bbox == m.bbox_list[m.i]
              r == bbox_to_slab_list(m.tm[1], bbox, m.slab_size[1],
                                     m.geometry_full)
          IN /\ log' = LogCall("bbox_to_slab_list", bbox, m.slab_size,
                               m.geometry_full, r)
             /\ m' = IF r.raised # "none" THEN Raise(m, r.raised)
                     ELSE [m EXCEPT !.i = @ + 1,
                             !.acc = AppendNew(@,
                               [k \in DOMAIN r.list |-> SlabString(r.list[k])])]
  /\ UNCHANGED << args, file, stdout, run, first, enum_vars >>

\* Lines 388-389: final_list.sort() on the strings, then one print.
GeomEmit ==
  /\ m.pc = "geom_loop"
  /\ m.i > Len(m.bbox_list)
  /\ LET final_list == SortStrings(m.acc)
     IN /\ stdout' = stdout \o PrintJoined(final_list)
        /\ m' = [m EXCEPT !.pc = "done", !.acc = final_list]
  /\ UNCHANGED << args, file, log, run, first, enum_vars >>

\* Mutant: the height of the tiles is written as WIDTH, the width as HEIGHT.
GetMapQueryHeightFirst(tm, tms, bbox) ==
  << "W", "I", "D", "T", "H", "=" >> \o NatToStr(tm.tile_size[2])
  \o << "&", "H", "E", "I", "G", "H", "T", "=" >> \o NatToStr(tm.tile_size[1])
  \o << "&", "B", "B", "O", "X", "=" >> \o FloatToStr(bbox[1]) \o << "," >>
  \o FloatToStr(bbox[2]) \o << "," >>
  \o FloatToStr(bbox[3]) \o << "," >>
  \o FloatToStr(bbox[4])
  \o << "&", "C", "R", "S", "=" >> \o tms.srs

\* Lines 406-409: query_string.
GetMapQuery(tm, tms, bbox) ==
  << "W", "I", "D", "T", "H", "=" >> \o NatToStr(tm.tile_size[1])
  \o << "&", "H", "E", "I", "G", "H", "T", "=" >> \o NatToStr(tm.tile_size[2])
  \o << "&", "B", "B", "O", "X", "=" >> \o FloatToStr(bbox[1]) \o << "," >>
  \o FloatToStr(bbox[2]) \o << "," >>
  \o FloatToStr(bbox[3]) \o << "," >>
  \o FloatToStr(bbox[4])
  \o << "&", "C", "R", "S", "=" >> \o tms.srs

\* Lines 391-410: TILE_INDICE to GETMAP_PARAMS.
TileIndice ==
  /\ m.pc = "tile"
  /\ LET payload == m.input_parts[2]
         f == Split(payload[1], ",")
     IN IF payload = None
        THEN /\ m' = Raise(m, "ValueError")
             /\ UNCHANGED << log, stdout >>
        ELSE IF ~(Len(f) = 2 /\ AllDigits(f[1]) /\ AllDigits(f[2]))
        THEN /\ m' = Raise(m, "ValueError")
             /\ UNCHANGED << log, stdout >>
        ELSE IF m.tm = None
        THEN /\ m' = Raise(m, "AttributeError")
             /\ UNCHANGED << log, stdout >>
        ELSE LET tile_col == DigitsToNat(f[1])
                 tile_row == DigitsToNat(f[2])
                 bbox == tm_tile_to_bbox(m.tm[1], tile_col, tile_row)
                 query_string == GetMapQuery(m.tm[1], m.tms[1], bbox)
             IN /\ log' = [log EXCEPT !.tm = Append(@,
                             [fn |-> "tile_to_bbox",
                              arg |-> << tile_col, tile_row >>])]
                /\ stdout' = stdout \o query_string \o NL
                /\ m' = [m EXCEPT !.pc = "done", !.bbox = Some(bbox)]
  /\ UNCHANGED << args, file, run, first, enum_vars >>

\* Mutant: every exception is given the exit code 1.
exit_code_all_one(raised) == IF raised = "none" THEN 0 ELSE 1

\* Lines 414-426: the exit code the script gives to the outcome of main.
exit_code_of(raised) ==
  IF raised = "none" THEN 0
  ELSE IF raised = "ValueError" THEN 2
  ELSE 1

\* Lines 414-426: the script ends with sys.exit(exit_code).
Exit ==
  /\ m.pc \in { "done", "raised" }
  /\ m' = [m EXCEPT !.pc = "exited", !.exit_code = Some(exit_code_of(m.raised))]
  /\ UNCHANGED << args, file, log, stdout, run, first, enum_vars >>

\* The same command run a second time on the same arguments and files.
SecondRun ==
  /\ m.pc \in { "done", "raised" }
  /\ run = 1
  /\ first' = Some([stdout |-> stdout, raised |-> m.raised, log |-> log])
  /\ m' = Frame0
  /\ log' = Log0
  /\ stdout' = <<>>
  /\ run' = 2
  /\ UNCHANGED << args, file, enum_vars >>

(***************************************************************************)
(* The command lines and the files main is run on.                         *)
(***************************************************************************)
\* The longest list of bboxes, in lines.
MaxLines == 2

\* "<kind>:<payload>"
WithPayload(kind, payload) == kind \o << ":" >> \o payload

\* Bboxes as the command line and the list files spell them: on tiles of 2
\* units, the columns 9 to 10 of row 0, the columns 0 to 1 and 1 to 2 of
\* the rows 0 to 1, a bbox with max < min, a point with decimals, and a
\* string that is no bbox.
BboxStrings ==
  { << "1", "9", ",", "-", "1", ",", "2", "1", ",", "-", "1" >>, << "1", ",",
       "-", "3", ",", "3", ",", "-", "1" >>, << "3", ",", "-", "3", ",", "5",
       ",", "-", "1" >>, << "3", ",", "-", "1", ",", "1", ",", "-", "3" >>,
    << "1", ".", "5", ",", "-", "2", ".", "5", ",", "1", ".", "5", ",", "-",
         "2", ".", "5" >>, << "1", ",", "2", ",", "3" >> }

ListLines == { << "1", "9", ",", "-", "1", ",", "2", "1", ",", "-",
     "1" >>, << "1", ",", "-", "3", ",", "3", ",", "-", "1" >>, << "3", ",",
     "-", "3", ",", "5", ",", "-", "1" >>, << "1", ",", "2", ",", "3" >> }

\* The list files: every sequence of at most MaxLines lines, each line ended
\* by a line feed.
ListFiles ==
  { [exists |-> TRUE, geometry |-> None,
     text |-> Flatten([k \in DOMAIN lines |-> lines[k] \o NL])] :
    lines \in UNION { [1..n -> ListLines] : n \in 0..MaxLines } }

\* The geometry files: what the parsers make of their content.
Geometries ==
  { [format |-> "WKT", valid |-> TRUE,
     parts |-> << << 190, -10, 210, -10 >> >>],
    [format |-> "JSON", valid |-> TRUE,
     parts |-> << << 10, -30, 30, -10 >>, << 30, -30, 50, -10 >> >>],
    [format |-> "GML", valid |-> TRUE,
     parts |-> << << 10, -10, 10, -10 >>, << 70, -50, 70, -50 >> >>],
    [format |-> "WKB", valid |-> TRUE,
     parts |-> << << 30, -30, 30, -30 >>, << 30, -30, 30, -30 >> >>],
    [format |-> "WKT", valid |-> FALSE,
     parts |-> << << 10, -10, 10, -10 >> >>] }

GeomFiles ==
  { [exists |-> TRUE, text |-> <<>>, geometry |-> g] :
    g \in { Some(x) : x \in Geometries } \cup { None } }

F_PATH == << "F", ".", "x" >>

\* The input arguments, each with the files it may find at its path.
InputsAndFiles ==
  ({ WithPayload(S_BBOX, b) : b \in BboxStrings }
     \cup { S_BBOX, S_BBOXES_LIST, S_GEOM_FILE, S_TILE_INDICE,
            << "x", ":", "1" >>,
            WithPayload(S_TILE_INDICE, << "3", ",", "1" >>),
            WithPayload(S_TILE_INDICE, << "3" >>) }) \X { NoFile }
  \cup { WithPayload(S_BBOXES_LIST, F_PATH) } \X (ListFiles \cup { NoFile })
  \cup { WithPayload(S_GEOM_FILE, F_PATH) } \X (GeomFiles \cup { NoFile })

Outputs == { S_GETTILE_PARAMS, S_SLAB_INDICES, S_GETMAP_PARAMS, << "x" >> }

SlabSizeArgs == { None, Some(<< "1", "x", "1" >>), Some(<< "2", "x",
     "1" >>), Some(<< "0", "x", "1" >>), Some(<< "2" >>) }

LevelArgs == { None, Some(S_15), Some(<< "1", "6" >>) }

TmsNames == { S_PM, << "X", "X" >> }

Init ==
  /\ \E tms_name \in TmsNames, io \in InputsAndFiles, output \in Outputs,
        level \in LevelArgs, slabsize \in SlabSizeArgs :
       /\ args = [tms_name |-> tms_name, input |-> io[1], output |-> output,
                  level |-> level, slabsize |-> slabsize]
       /\ file = io[2]
  /\ m = Frame0
  /\ log = Log0
  /\ stdout = <<>>
  /\ run = 1
  /\ first = None
  /\ EnumIdle

Next ==
  \/ ParseSlabSize
  \/ LoadTms
  \/ GetLevel
  \/ CheckImplemented
  \/ BboxRead
  \/ BboxToGetTile
  \/ BboxToSlabs
  \/ ListOpen
  \/ ListLine
  \/ ListEmit
  \/ GeomOpen
  \/ GeomEnvelopes
  \/ GeomStepGetTile
  \/ GeomStepSlabs
  \/ GeomEmit
  \/ TileIndice
  \/ Exit
  \/ SecondRun

Spec == Init /\ [][Next]_vars

(***************************************************************************)
(* Properties of the enumerators (specification SpecEnum).                 *)
(***************************************************************************)
tile_range_of_call == call.tm.tiles[call.bbox]

\* The tiles of the tile range of the call.
TilesOfCall ==
  { << c, r >> : c \in tile_range_of_call[1]..tile_range_of_call[3],
                 r \in tile_range_of_call[2]..tile_range_of_call[4] }

GetTileReturned == epc = "returned" /\ call.fn = "bbox_to_gettile"
SlabListReturned == epc = "returned" /\ call.fn = "bbox_to_slab_list"

\* C1 as stated: without a container bbox_to_gettile lists the tiles with
\* the row as the outer axis and the column as the inner axis: after
\* (col, row) comes (col + 1, row), and after the last column of a row comes
\* the first column of the next row.
C1_RowOuterColumnInner ==
  (GetTileReturned /\ call.container = None) =>
    LET t == [i \in DOMAIN ret.list |-> TileOfQuery(ret.list[i])]
        tr == tile_range_of_call
    IN /\ t # <<>> => t[1] = << tr[1], tr[2] >>
       /\ \A k \in 1..(Len(t) - 1) :
            IF t[k][1] < tr[3]
            THEN t[k + 1] = << t[k][1] + 1, t[k][2] >>
            ELSE t[k + 1] = << tr[1], t[k][2] + 1 >>

\* C1 amended: without a container bbox_to_gettile lists the tiles with the
\* column as the outer axis (minCol..maxCol) and the row as the inner axis
\* (minRow..maxRow): after (col, row) comes (col, row + 1), and after the
\* last row of a column comes the first row of the next column.
C1_ColumnOuterRowInner ==
  (GetTileReturned /\ call.container = None) =>
    LET t == [i \in DOMAIN ret.list |-> TileOfQuery(ret.list[i])]
        tr == tile_range_of_call
    IN /\ t # <<>> => t[1] = << tr[1], tr[2] >>
       /\ \A k \in 1..(Len(t) - 1) :
            IF t[k][2] < tr[4]
            THEN t[k + 1] = << t[k][1], t[k][2] + 1 >>
            ELSE t[k + 1] = << t[k][1] + 1, tr[2] >>

\* A call without container returned the tiles of two columns and two rows.
C1_Witness ==
  /\ GetTileReturned /\ call.container = None
  /\ tile_range_of_call = << 1, 0, 2, 1 >>
  /\ Len(ret.list) = 4

\* C2: without a container bbox_to_gettile returns exactly one
\* "TILEMATRIX=<tm.id>&TILECOL=<col>&TILEROW=<row>" for each tile of the
\* range and nothing else, in ascending (col, row) order (column outside,
\* row inside), nothing for a range with max < min, and tm.bbox_to_tiles is
\* its only call to the tile matrix, made once with the given bbox.
C2_GetTileExactlyTheRange ==
  (GetTileReturned /\ call.container = None) =>
    /\ \A t \in TilesOfCall :
         Cardinality({ i \in DOMAIN ret.list :
                         ret.list[i] = GetTileQuery(call.tm, t[1], t[2]) }) = 1
    /\ \A i \in DOMAIN ret.list :
         \E t \in TilesOfCall : ret.list[i] = GetTileQuery(call.tm, t[1], t[2])
    /\ \A i, j \in DOMAIN ret.list :
         i < j => TupleLess(TileOfQuery(ret.list[i]), TileOfQuery(ret.list[j]))
    /\ (tile_range_of_call[3] < tile_range_of_call[1]
        \/ tile_range_of_call[4] < tile_range_of_call[2]) => ret.list = <<>>
    /\ ret.tm_calls = << [fn |-> "bbox_to_tiles", arg |-> call.bbox] >>

\* A call without container returned the six tiles of a 3 x 2 range.
C2_Witness ==
  /\ GetTileReturned /\ call.container = None
  /\ tile_range_of_call = << 0, 1, 2, 2 >>
  /\ Len(ret.list) = 6

\* C3: with a container, bbox_to_gettile calls tm.tile_to_bbox once for each
\* tile of the range with that tile's own (col, row), evaluates
\* container.Intersects once for it, on the rectangle built from that bbox,
\* and the tile is in the result if and only if the answer is true.
C3_GetTileFilter ==
  (GetTileReturned /\ call.container # None) =>
    /\ Len(ret.tm_calls) = 1 + Cardinality(TilesOfCall)
    /\ Len(ret.ogr_calls) = Cardinality(TilesOfCall)
    /\ \A t \in TilesOfCall :
         LET rect == Rectangle(tm_tile_to_bbox(call.tm, t[1], t[2]))
         IN /\ \E k \in DOMAIN ret.ogr_calls :
                 /\ ret.tm_calls[k + 1] = [fn |-> "tile_to_bbox", arg |-> t]
                 /\ ret.ogr_calls[k] = rect
            /\ InList(GetTileQuery(call.tm, t[1], t[2]), ret.list)
                 <=> Intersects(call.container[1], rect)
    /\ \A i \in DOMAIN ret.list : TileOfQuery(ret.list[i]) \in TilesOfCall

\* A call with a container kept some tiles of the range and dropped others.
C3_Witness ==
  /\ GetTileReturned /\ call.container # None
  /\ Len(ret.ogr_calls) = 6
  /\ Len(ret.list) = 2

slab_size_of_call == call.slab_size[1]

\* The slab (sc, sr) owns the tile (c, r): slab index k owns the tile
\* indices k * size .. (k + 1) * size - 1 on each axis.
Owns(slab, tile, size) ==
  /\ slab[1] * size[1] <= tile[1] /\ tile[1] <= (slab[1] + 1) * size[1] - 1
  /\ slab[2] * size[2] <= tile[2] /\ tile[2] <= (slab[2] + 1) * size[2] - 1

\* The slabs that own a tile of the tile range of the call.
SlabsOfCall ==
  { s \in (0..MaxCol) \X (0..MaxRow) :
      \E t \in TilesOfCall : Owns(s, t, slab_size_of_call) }

\* The list holds exactly the slabs that own a tile of the range, each once,
\* in ascending (col, row) order.
SlabListIsSlabsOfCall ==
  /\ { ret.list[i] : i \in DOMAIN ret.list } = SlabsOfCall
  /\ \A i, j \in DOMAIN ret.list :
       i < j => TupleLess(ret.list[i], ret.list[j])

\* C4 as stated: for every tile range with non-negative bounds and every
\* slab size (w, h) with w, h >= 1, bbox_to_slab_list without a container
\* returns exactly the slabs (floor(c/w), floor(r/h)) of the tiles (c, r) of
\* the range, each once, in ascending (col, row) order.
C4_SlabListEveryRange ==
  (SlabListReturned /\ call.container = None) => SlabListIsSlabsOfCall

\* C4 amended: the same for every tile range with minCol <= maxCol and
\* minRow <= maxRow.  (For a range with max < min the code still lists the
\* slabs between floor(min/size) and floor(max/size), which own no tile of
\* the range.)
C4_SlabListNonEmptyRange ==
  (/\ SlabListReturned /\ call.container = None
   /\ tile_range_of_call[1] <= tile_range_of_call[3]
   /\ tile_range_of_call[2] <= tile_range_of_call[4]) => SlabListIsSlabsOfCall

\* A call without container returned four slabs of a range that starts and
\* ends inside slabs.
C4_Witness ==
  /\ SlabListReturned /\ call.container = None
  /\ slab_size_of_call = << 2, 2 >>
  /\ tile_range_of_call = << 1, 1, 2, 2 >>
  /\ ret.list = << << 0, 0 >>, << 0, 1 >>, << 1, 0 >>, << 1, 1 >> >>

\* The tiles that belong to a slab.
TilesOfSlab(slab, size) ==
  { << c, r >> :
      c \in (slab[1] * size[1])..(slab[1] * size[1] + size[1] - 1),
      r \in (slab[2] * size[2])..(slab[2] * size[2] + size[2] - 1) }

\* The union bounding box of the footprints of the tiles of a slab.
UnionBbox(tm, slab, size) ==
  LET boxes == { tm_tile_to_bbox(tm, t[1], t[2]) : t \in TilesOfSlab(slab, size) }
  IN << MinOf({ b[1] : b \in boxes }), MinOf({ b[2] : b \in boxes }),
        MaxOf({ b[3] : b \in boxes }), MaxOf({ b[4] : b \in boxes }) >>

\* C5: with a container, the rectangle bbox_to_slab_list tests for the
\* candidate slab (sc, sr) is the union bounding box of the footprints of
\* all the tiles of the slab, each obtained by transforming that tile's own
\* (col, row), and the slab is in the result if and only if that union
\* rectangle intersects the container.
C5_SlabFootprintIsUnion ==
  (SlabListReturned /\ call.container # None) =>
    LET cands == SlabLoop(SlabRange(tile_range_of_call, slab_size_of_call))
    IN /\ Len(ret.ogr_calls) = Len(cands)
       /\ \A k \in DOMAIN cands :
            LET union == Rectangle(UnionBbox(call.tm, cands[k],
                                             slab_size_of_call))
            IN /\ ret.ogr_calls[k] = union
               /\ InList(cands[k], ret.list)
                    <=> Intersects(call.container[1], union)
               /\ \A t \in TilesOfSlab(cands[k], slab_size_of_call) :
                    InList([fn |-> "tile_to_bbox", arg |-> t], ret.tm_calls)

(***************************************************************************)
(* Properties of main (specification Spec).                                *)
(***************************************************************************)
\* main has returned without raising.
Done == m.pc = "done"

InputKind == m.input_parts[1]

OutputKind == m.output_parts[1]

\* The lines written on the standard output, the empty ones left out.
EmittedLines ==
  LET l == SplitLines(stdout)
  IN FilterSeq(l, [k \in DOMAIN l |-> l[k] # <<>>])

\* The lines read back as (column, row) tuples.
EmittedTuples ==
  [k \in DOMAIN EmittedLines |->
     IF OutputKind = S_GETTILE_PARAMS THEN TileOfQuery(EmittedLines[k])
     ELSE SlabOfLine(EmittedLines[k])]

\* Two calls of the enumerator returned an element in common.
CallsOverlap ==
  \E i, j \in DOMAIN log.enum :
    /\ i < j
    /\ \E a \in DOMAIN log.enum[i].list, b \in DOMAIN log.enum[j].list :
         log.enum[i].list[a] = log.enum[j].list[b]

\* C6: after main has run on a BBOXES_LIST or GEOM_FILE input, no slab
\* coordinate and no query string is on two lines of the output, whatever
\* the calls of the enumerator returned in common.
C6_NoDuplicateEmitted ==
  Done /\ InputKind \in { S_BBOXES_LIST, S_GEOM_FILE }
    => \A i, j \in DOMAIN EmittedLines :
         i # j => /\ EmittedLines[i] # EmittedLines[j]
                  /\ EmittedTuples[i] # EmittedTuples[j]

\* C6 witness: main has returned on a geometry where two calls returned a
\* common element, and lines were written.
C6_Witness ==
  /\ Done
  /\ InputKind = S_GEOM_FILE
  /\ CallsOverlap
  /\ Len(EmittedLines) >= 2

\* C7: for a BBOX, BBOXES_LIST or GEOM_FILE input, the lines main writes,
\* read back as integer (column, row) tuples, never decrease under the
\* numeric order of tuples, also when the numbers differ in their count of
\* digits.
C7_EmittedTuplesNonDecreasing ==
  Done /\ InputKind \in { S_BBOX, S_BBOXES_LIST, S_GEOM_FILE }
    => \A k \in 1..(Len(EmittedTuples) - 1) :
         ~TupleLess(EmittedTuples[k + 1], EmittedTuples[k])

\* The coordinates of a line of a list, field by field.
BboxOfLine(line) ==
  LET f == Split(line, ",")
  IN << FloatOfString(f[1]), FloatOfString(f[2]),
        FloatOfString(f[3]), FloatOfString(f[4]) >>

\* C8: BBOXES_LIST to SLAB_INDICES calls bbox_to_slab_list once for each
\* line of the list, in the order of the file and without container; the
\* slabs written are those the calls returned, no more and no fewer, one
\* "<col>,<row>" line each, in ascending order of tuples.
C8_BboxesListToSlabs ==
  Done /\ InputKind = S_BBOXES_LIST /\ OutputKind = S_SLAB_INDICES
    => LET lines == SplitLines(file.text)
           returned == UNION { { log.enum[i].list[k] :
                                  k \in DOMAIN log.enum[i].list } :
                               i \in DOMAIN log.enum }
       IN /\ Len(log.enum) = Len(lines)
          /\ \A i \in DOMAIN lines :
               /\ log.enum[i].fn = "bbox_to_slab_list"
               /\ log.enum[i].bbox = BboxOfLine(lines[i])
               /\ log.enum[i].slab_size = m.slab_size
               /\ log.enum[i].container = None
          /\ log.ogr = <<>>
          /\ { EmittedTuples[k] : k \in DOMAIN EmittedTuples } = returned
          /\ \A k \in 1..(Len(EmittedTuples) - 1) :
               TupleLess(EmittedTuples[k], EmittedTuples[k + 1])
          /\ stdout = Flatten([k \in DOMAIN EmittedTuples |->
                                 SlabString(EmittedTuples[k]) \o NL])

\* C8 witness: a list of two lines whose calls returned different slabs, one
\* of them in common, written out of their order of arrival.
C8_Witness ==
  /\ Done
  /\ InputKind = S_BBOXES_LIST
  /\ Len(log.enum) = 2
  /\ CallsOverlap
  /\ log.enum[1].list # log.enum[2].list
  /\ Len(log.enum[2].list) >= 1 /\ Len(log.enum[1].list) >= 1
  /\ TupleLess(log.enum[2].list[1], log.enum[1].list[1])

\* C9: on a GEOM_FILE input of k >= 1 parts the enumerator of the output
\* kind is called k times; the call number i gets the envelope of the part
\* number i as (minX, minY, maxX, maxY), and as container the whole
\* geometry; a geometry of one part gives one call.
C9_OneCallPerPart ==
  Done /\ InputKind = S_GEOM_FILE
    => LET geometry == file.geometry[1]
           k == Len(geometry.parts)
       IN /\ k >= 1
          /\ Len(log.enum) = k
          /\ \A i \in 1..k :
               /\ log.enum[i].fn = IF OutputKind = S_GETTILE_PARAMS
                                   THEN "bbox_to_gettile"
                                   ELSE "bbox_to_slab_list"
               /\ log.enum[i].bbox = geometry.parts[i]
               /\ log.enum[i].container = Some(geometry)
               /\ log.enum[i].container # Some([geometry EXCEPT
                                                 !.parts = << geometry.parts[i] >>])
                    \/ k = 1

\* C9 witness: main has returned on a geometry of two parts of different
\* envelopes, none of them a point at the origin.
C9_Witness ==
  /\ Done
  /\ InputKind = S_GEOM_FILE
  /\ Len(log.enum) = 2
  /\ log.enum[1].bbox # log.enum[2].bbox
  /\ log.enum[1].bbox[2] # log.enum[1].bbox[3]

\* The same output and the same outcome as the first run.
SameAsFirstRun ==
  /\ stdout = first[1].stdout
  /\ m.raised = first[1].raised

\* Auxiliary: a second run on the same arguments, files and collaborators
\* ends as the first and writes the same output.
SecondRunSameOutput ==
  run = 2 /\ m.pc \in { "done", "raised" } => SameAsFirstRun

\* C10: two runs of main on the same arguments, the same files and the same
\* answers of the collaborators write the same output, and the output is
\* sorted: slab coordinates by numeric tuple, query strings as strings.
C10_SameOutputAndSorted ==
  run = 2 /\ Done /\ InputKind \in { S_BBOXES_LIST, S_GEOM_FILE }
    => /\ SameAsFirstRun
       /\ \A k \in 1..(Len(EmittedLines) - 1) :
            IF OutputKind = S_GETTILE_PARAMS
            THEN ~StrLess(EmittedLines[k + 1], EmittedLines[k])
            ELSE ~TupleLess(EmittedTuples[k + 1], EmittedTuples[k])

\* The calls made to the collaborator fn, in the order they were made.
ExtCalls(fn) ==
  FilterSeq(log.ext, [k \in DOMAIN log.ext |-> log.ext[k].fn = fn])

\* main has ended on the exception of that name.
RaisedWith(exception) == m.pc = "raised" /\ m.raised = exception

\* C11: when main raises the error of an input / output pair without
\* conversion, neither TileMatrixSet(tms_name) nor tms.get_level(level) has
\* been called.
C11_UnsupportedBeforeCatalog ==
  RaisedWith("RuntimeError")
    => ExtCalls("TileMatrixSet") = <<>> /\ ExtCalls("get_level") = <<>>

\* main has returned or raised.
Ended == m.pc \in { "done", "raised" }

\* Both positional arguments have the form KIND or KIND:payload.
WellFormedPair == FormatParts(args.input) # None /\ FormatParts(args.output) # None

\* The pair of kinds of the command line is one of the six with a conversion.
SupportedPair ==
  Implemented(FormatParts(args.input)[1][1], FormatParts(args.output)[1][1])

\* The slab size argument is absent or reads as <int>x<int>.
SlabSizeArgOk ==
  args.slabsize = None \/ args.slabsize[1] = <<>>
    \/ SlabSizeOfString(args.slabsize[1]) # None

\* What the claim C12 says of a pair without conversion.
UnsupportedOutcome ==
  /\ RaisedWith("RuntimeError")
  /\ stdout = <<>>
  /\ log.tm = <<>>

\* C12: main returns only for the six pairs with a conversion; for every
\* other well-formed pair of kinds it raises RuntimeError, writes nothing
\* and calls neither tm.bbox_to_tiles nor tm.tile_to_bbox.
C12_OnlySixPairs ==
  Ended /\ WellFormedPair
    => /\ Done => SupportedPair
       /\ ~SupportedPair => UnsupportedOutcome

\* Auxiliary: the same, for the command lines whose slab size reads and
\* whose tile matrix set exists, those that reach the test of the pair.
UnsupportedPairWhenReached ==
  Ended /\ WellFormedPair /\ SlabSizeArgOk /\ TileMatrixSet(args.tms_name) # None
    => /\ Done => SupportedPair
       /\ ~SupportedPair => UnsupportedOutcome

\* The script has ended.
Exited == m.pc = "exited"

\* The string is a bbox "<n>,<n>,<n>,<n>".
IsBboxString(str) ==
  LET f == Split(str, ",")
  IN Len(f) = 4 /\ \A i \in DOMAIN f : IsCoord(f[i])

\* main raised on a malformed argument or value: a slab size or positional
\* arguments that do not read, a payload that is missing or is no bbox or
\* no tile indices, a line of a list that is no bbox, or no slab size for
\* SLAB_INDICES.
MalformedCause ==
  \/ m.at \in { "slabsize", "tms", "bbox" }
  \/ /\ m.at \in { "bbox_out", "geom_env" }
     /\ m.output_parts[1] = S_SLAB_INDICES /\ m.slab_size = None
  \/ m.at = "list" /\ (m.input_parts[2] = None \/ m.slab_size = None)
  \/ m.at = "geom" /\ m.input_parts[2] = None
  \/ m.at = "list_loop" /\ ~IsBboxString(m.bbox_list[m.i])
  \/ /\ m.at = "tile"
     /\ \/ m.input_parts[2] = None
        \/ LET f == Split(m.input_parts[2][1], ",")
           IN ~(Len(f) = 2 /\ AllDigits(f[1]) /\ AllDigits(f[2]))

\* main raised on a geometry that does not parse or is invalid, on a missing
\* file, or on a pair without conversion.
RuntimeCause ==
  \/ m.at = "implemented"
  \/ m.at \in { "list", "geom" } /\ m.input_parts[2] # None /\ ~file.exists
       /\ (m.at = "list" => m.slab_size # None)
  \/ m.at = "geom" /\ m.input_parts[2] # None /\ file.exists

ArgInputKind == FormatParts(args.input)[1][1]

ArgOutputKind == FormatParts(args.output)[1][1]

\* SLAB_INDICES is asked for one of the three kinds of input, without
\* --slabsize.
SlabsWithoutSize ==
  /\ WellFormedPair
  /\ ArgOutputKind = S_SLAB_INDICES
  /\ ArgInputKind \in { S_BBOX, S_BBOXES_LIST, S_GEOM_FILE }
  /\ args.slabsize = None

\* What the claim C14 says of such a command once main has ended.
NoSizeOutcome ==
  /\ RaisedWith("ValueError")
  /\ log.enum = <<>>
  /\ stdout = <<>>

\* C14: when SLAB_INDICES is asked without slab size, main raises ValueError
\* for a BBOX, a BBOXES_LIST and a GEOM_FILE input, without calling
\* bbox_to_slab_list and without writing anything.
C14_SlabSizeMandatory ==
  Ended /\ SlabsWithoutSize => NoSizeOutcome

\* Auxiliary: the same, a GEOM_FILE input being taken only with a file that
\* exists and holds a valid geometry.
GeomFileReadable ==
  /\ file.exists
  /\ ParseGeometry(file.geometry) # None
  /\ ParseGeometry(file.geometry)[1].valid

SlabSizeMandatoryWhenReached ==
  (/\ Ended
   /\ SlabsWithoutSize
   /\ (ArgInputKind = S_GEOM_FILE /\ FormatParts(args.input)[1][2] # None)
        => GeomFileReadable)
    => NoSizeOutcome

\* C15: when main raises on a malformed bbox (a line of a list included), a
\* malformed slab size or a missing slab size, neither tm.bbox_to_tiles nor
\* tm.tile_to_bbox has been called yet.
C15_SyntaxErrorsBeforeGrid ==
  m.pc = "raised" /\ MalformedCause => log.tm = <<>>

\* Auxiliary: the same, but for the lines of a list after the first.
SyntaxErrorsBeforeGridButLines ==
  m.pc = "raised" /\ MalformedCause /\ ~(m.at = "list_loop" /\ m.i > 1)
    => log.tm = <<>>

\* main runs one of the conversions that write their list after the last
\* call of the enumerator.
AccumulatingPath ==
  /\ m.input_parts # None /\ m.output_parts # None
  /\ \/ InputKind = S_BBOXES_LIST /\ OutputKind = S_SLAB_INDICES
     \/ InputKind = S_GEOM_FILE
          /\ OutputKind \in { S_GETTILE_PARAMS, S_SLAB_INDICES }

\* C16: on BBOXES_LIST to SLAB_INDICES and on GEOM_FILE to GETTILE_PARAMS or
\* SLAB_INDICES, nothing is written before the last call of the enumerator
\* has returned: when main ends on an error, the standard output is empty.
C16_NoPartialOutput ==
  AccumulatingPath
    => /\ m.raised # "none" => stdout = <<>>
       /\ stdout # <<>> => /\ m.pc \in { "done", "exited" }
                           /\ Len(log.enum) = Len(m.bbox_list)

\* C16 witness: main has raised on such a path after a call of the
\* enumerator that returned slabs.
C16_Witness ==
  /\ AccumulatingPath
  /\ m.pc = "raised"
  /\ Len(log.enum) >= 1
  /\ log.enum[1].list # <<>>
  /\ stdout = <<>>

\* The positions in the log of the calls made to the collaborator fn.
ExtIndices(fn) == { k \in DOMAIN log.ext : log.ext[k].fn = fn }

\* main has ended after the statement that probes the file of a BBOXES_LIST
\* or GEOM_FILE input.
EndedPastProbe ==
  /\ Ended
  /\ AccumulatingPath
  /\ m.input_parts[2] # None
  /\ InputKind = S_BBOXES_LIST => m.slab_size # None

\* C17: for a BBOXES_LIST or GEOM_FILE input exists(uri) is called before
\* get_data_str(uri); when it answers false, FileNotFoundError is raised
\* and get_data_str is never called; when it answers true, each of the two
\* is called exactly once.
C17_ProbeBeforeFetch ==
  /\ \A g \in ExtIndices("get_data_str") :
       \E e \in ExtIndices("exists") : e < g /\ log.ext[e].arg = log.ext[g].arg
  /\ EndedPastProbe
       => /\ Cardinality(ExtIndices("exists")) = 1
          /\ \A e \in ExtIndices("exists") : log.ext[e].arg = m.input_parts[2][1]
          /\ IF file.exists
             THEN Cardinality(ExtIndices("get_data_str")) = 1
             ELSE /\ RaisedWith("FileNotFoundError")
                  /\ ExtIndices("get_data_str") = {}

\* C17 witness: main has returned on a list whose file exists, after both
\* calls.
C17_Witness ==
  /\ Done
  /\ InputKind = S_BBOXES_LIST
  /\ file.exists
  /\ ExtIndices("exists") # {}
  /\ ExtIndices("get_data_str") # {}

\* main has ended after fetching the content of a GEOM_FILE input.
EndedPastGeomFetch ==
  /\ Ended
  /\ AccumulatingPath
  /\ InputKind = S_GEOM_FILE
  /\ m.input_parts[2] # None
  /\ file.exists

\* C18: when none of the parsers reads the fetched content, or the geometry
\* read is invalid, main raises GeometryError, calls no enumerator and
\* writes nothing.
C18_GeometryError ==
  EndedPastGeomFetch /\ (file.geometry = None \/ ~file.geometry[1].valid)
    => /\ RaisedWith("GeometryError")
       /\ log.enum = <<>>
       /\ log.tm = <<>>
       /\ stdout = <<>>

\* C18 witness: main has raised on a geometry that a parser read and that
\* is invalid, with a level and a slab size given.
C18_Witness ==
  /\ EndedPastGeomFetch
  /\ file.geometry # None
  /\ ~file.geometry[1].valid
  /\ m.tm # None
  /\ m.raised = "GeometryError"

\* The payload of the input argument is "<col>,<row>", two numbers written
\* in digits.
IsTileIndices(payload) ==
  /\ payload # None
  /\ LET f == Split(payload[1], ",")
     IN Len(f) = 2 /\ AllDigits(f[1]) /\ AllDigits(f[2])

\* "KEY=value" number n of the line, as << KEY, value >>.
GetMapField(line, n) == Split(Split(line, "&")[n], "=")

\* C19: on TILE_INDICE:<col>,<row> with GETMAP_PARAMS, main calls
\* tm.tile_to_bbox once, with (col, row), and writes one line
\* WIDTH=<w>&HEIGHT=<h>&BBOX=<minX>,<minY>,<maxX>,<maxY>&CRS=<crs>, (w, h)
\* the tile size of the level, the coordinates those the transform
\* returned, in its order, crs the srs of the tile matrix set; a payload
\* that is not two numbers around a comma raises ValueError without transform
\* call.
C19_TileToGetMap ==
  /\ Done /\ InputKind = S_TILE_INDICE
       => LET f == Split(m.input_parts[2][1], ",")
              col == DigitsToNat(f[1])
              row == DigitsToNat(f[2])
              tm == m.tm[1]
              returned == tm_tile_to_bbox(tm, col, row)
              line == EmittedLines[1]
              coords == Split(GetMapField(line, 3)[2], ",")
          IN /\ IsTileIndices(m.input_parts[2])
             /\ log.tm = << [fn |-> "tile_to_bbox", arg |-> << col, row >>] >>
             /\ Len(EmittedLines) = 1
             /\ stdout = line \o NL
             /\ Len(Split(line, "&")) = 4
             /\ GetMapField(line, 1) = << << "W", "I", "D", "T",
                  "H" >>, NatToStr(tm.tile_size[1]) >>
             /\ GetMapField(line, 2) = << << "H", "E", "I", "G", "H",
                  "T" >>, NatToStr(tm.tile_size[2]) >>
             /\ GetMapField(line, 3)[1] = << "B", "B", "O", "X" >>
             /\ Len(coords) = 4
             /\ \A k \in 1..4 : IsCoord(coords[k])
                                  /\ FloatOfString(coords[k]) = returned[k]
             /\ GetMapField(line, 4) = << << "C", "R", "S" >>, m.tms[1].srs >>
  /\ (/\ Ended
      /\ m.input_parts # None /\ m.output_parts # None
      /\ InputKind = S_TILE_INDICE /\ OutputKind = S_GETMAP_PARAMS
      /\ ~IsTileIndices(m.input_parts[2]))
       => RaisedWith("ValueError") /\ log.tm = <<>> /\ stdout = <<>>

\* C19 witness: main has returned on TILE_INDICE:3,1 and has written a line.
C19_Witness ==
  /\ Done
  /\ InputKind = S_TILE_INDICE
  /\ m.input_parts[2] = Some(<< "3", ",", "1" >>)
  /\ Len(stdout) > 1

ReadBboxReturned == epc = "returned" /\ call.fn = "read_bbox"

\* The field is a number: an optional "-", digits, and optionally a point
\* and digits.
IsNumberForm(f) ==
  LET u == IF f # <<>> /\ f[1] = "-" THEN SubSeq(f, 2, Len(f)) ELSE f
      points == { i \in DOMAIN u : u[i] = "." }
  IN /\ Cardinality(points) <= 1
     /\ \A i \in DOMAIN u \ points : u[i] \in { Digits[k] : k \in DOMAIN Digits }
     /\ \A i \in points : 1 < i /\ i < Len(u)
     /\ u # <<>>

\* The string has the form "<n>,<n>,<n>,<n>".
IsBboxForm(str) ==
  LET f == Split(str, ",")
  IN Len(f) = 4 /\ \A i \in 1..4 : IsNumberForm(f[i])

\* C20: read_bbox returns the four numbers of a string "<n>,<n>,<n>,<n>", in
\* their order; on every other string it raises ValueError, with the message
\* of the caller when there is one, and the message "Invalid BBOX: ..."
\* otherwise; it returns no value for a malformed string.
C20_ReadBbox ==
  ReadBboxReturned
    => IF IsBboxForm(call.bbox_str)
       THEN /\ ret.raised = "none"
            /\ ret.value = Some([i \in 1..4 |->
                                   FloatOfString(Split(call.bbox_str, ",")[i])])
       ELSE /\ ret.raised = "ValueError"
            /\ ret.value = None
            /\ IF call.error_message # None
               THEN ret.message = call.error_message
               ELSE SubSeq(ret.message[1], 1, 14)
                      = << "I", "n", "v", "a", "l", "i", "d", " ",
                           "B", "B", "O", "X", ":", " " >>

\* Auxiliary: the same on the strings that do not end with a line feed.
ReadBboxButLineFeed ==
  ReadBboxReturned /\ DollarStrip(call.bbox_str) = call.bbox_str
    => C20_ReadBbox

\* The query strings the calls of bbox_to_gettile returned to main.
SelectedQueries ==
  UNION { { log.enum[i].list[k] : k \in DOMAIN log.enum[i].list } :
          i \in DOMAIN log.enum }

\* The lines of the standard output: the pieces each line feed ends.
OutputLines == SplitLines(stdout)

\* main has returned from a conversion to GETTILE_PARAMS.
GetTileDone ==
  Done /\ OutputKind = S_GETTILE_PARAMS /\ InputKind \in { S_BBOX, S_GEOM_FILE }

\* The standard output is its lines, each one ended by one line feed, and
\* the lines are the selected queries, each one once.
GetTileOutputShape ==
  /\ stdout = Flatten([k \in DOMAIN OutputLines |-> OutputLines[k] \o NL])
  /\ { OutputLines[k] : k \in DOMAIN OutputLines } = SelectedQueries
  /\ Len(OutputLines) = Cardinality(SelectedQueries)
  /\ \A k \in DOMAIN OutputLines :
       OutputLines[k]
         = GetTileQuery(m.tm[1], TileOfQuery(OutputLines[k])[1],
                        TileOfQuery(OutputLines[k])[2])

\* C21: the GETTILE_PARAMS output is one line
\* TILEMATRIX=<level>&TILECOL=<col>&TILEROW=<row> for each selected tile,
\* joined by line feeds, with one last line feed and nothing after it; it has
\* as many lines as tiles are selected, also when none is.
C21_GetTileOutput ==
  GetTileDone => GetTileOutputShape

\* Auxiliary: the same when at least one tile is selected.
GetTileOutputNonEmpty ==
  GetTileDone /\ SelectedQueries # {} => GetTileOutputShape

\* The slab range of the call, and its candidates numbered in the order
\* "column outer, row inner".
SlabRangeOfCall ==
  << tile_range_of_call[1] \div slab_size_of_call[1],
     tile_range_of_call[2] \div slab_size_of_call[2],
     tile_range_of_call[3] \div slab_size_of_call[1],
     tile_range_of_call[4] \div slab_size_of_call[2] >>

SlabColumnsOfCall ==
  IF SlabRangeOfCall[3] < SlabRangeOfCall[1] THEN 0
  ELSE SlabRangeOfCall[3] - SlabRangeOfCall[1] + 1

SlabRowsOfCall ==
  IF SlabRangeOfCall[4] < SlabRangeOfCall[2] THEN 0
  ELSE SlabRangeOfCall[4] - SlabRangeOfCall[2] + 1

SlabCandidate(k) ==
  << SlabRangeOfCall[1] + ((k - 1) \div SlabRowsOfCall),
     SlabRangeOfCall[2] + ((k - 1) % SlabRowsOfCall) >>

\* The candidates to which the container answered true, by number.
SlabsAnsweredTrue ==
  { k \in DOMAIN ret.ogr_calls :
      Intersects(call.container[1], ret.ogr_calls[k]) }

\* C22: with a container, bbox_to_slab_list asks container.Intersects once
\* for each candidate of the slab range, the candidates taken column by
\* column and row by row inside a column, and returns the candidates
\* answered true, in that order.
C22_SlabFilterOncePerCandidate ==
  SlabListReturned /\ call.container # None
    => /\ Len(ret.ogr_calls) = SlabColumnsOfCall * SlabRowsOfCall
       /\ Len(ret.list) = Cardinality(SlabsAnsweredTrue)
       /\ \A i \in DOMAIN ret.list :
            \E k \in SlabsAnsweredTrue :
              /\ ret.list[i] = SlabCandidate(k)
              /\ Cardinality({ j \in SlabsAnsweredTrue : j <= k }) = i

\* C22 witness: a call with a container over two columns and two rows of
\* slabs, answered true for some and false for others.
C22_Witness ==
  /\ SlabListReturned
  /\ call.container # None
  /\ SlabColumnsOfCall = 2 /\ SlabRowsOfCall = 2
  /\ Len(ret.ogr_calls) = 4
  /\ Len(ret.list) \in 1..3

\* The parsers main has called, in the order of the calls.
ProbesMade ==
  LET calls == ExtCalls("CreateGeometryFrom")
  IN [k \in DOMAIN calls |-> calls[k].arg]

\* main has ended after get_data_str returned the content of a GEOM_FILE.
EndedPastGeomRead ==
  /\ EndedPastGeomFetch
  /\ ExtCalls("get_data_str") # <<>>

\* The parsers were called in that order up to the first that read the
\* content, and the GeometryError of a content that none reads came after
\* the four calls.
ProbedInOrder(order) ==
  /\ Len(ProbesMade) \in 1..4
  /\ ProbesMade = SubSeq(order, 1, Len(ProbesMade))
  /\ IF file.geometry # None
     THEN /\ ProbesMade[Len(ProbesMade)] = file.geometry[1].format
          /\ \A k \in 1..(Len(ProbesMade) - 1) :
               ProbesMade[k] # file.geometry[1].format
     ELSE Len(ProbesMade) = 4 /\ RaisedWith("GeometryError")
  /\ (RaisedWith("GeometryError") /\ Len(ProbesMade) < 4
        => file.geometry # None /\ ~file.geometry[1].valid)

\* C23 as stated: the formats are probed in the order WKT, GeoJSON, WKB,
\* GML, up to the first probe that succeeds, and GeometryError is raised
\* only when the four probes have failed.
C23_ProbesWktFirst ==
  EndedPastGeomRead => ProbedInOrder(<< "WKT", "JSON", "WKB", "GML" >>)

\* C23 amended: the formats are probed in the order GML, GeoJSON, WKB, WKT,
\* up to the first probe that succeeds, and the GeometryError of an
\* unrecognised content is raised only when the four probes have failed.
C23_ProbesGmlFirst ==
  EndedPastGeomRead => ProbedInOrder(<< "GML", "JSON", "WKB", "WKT" >>)

\* C23 witness: main has returned on a content that the third parser read,
\* after two that did not.
C23_Witness ==
  /\ EndedPastGeomRead
  /\ Done
  /\ Len(ProbesMade) = 3
  /\ file.geometry[1].format = "WKB"

\* s has the characters of sub, in a row.
Contains(s, sub) ==
  \E i \in 1..(Len(s) - Len(sub) + 1) : SubSeq(s, i, i + Len(sub) - 1) = sub

\* C24: every GeometryError main raises, for a content that no parser reads
\* and for an invalid geometry alike, has the path of the GEOM_FILE input in
\* its message.
C24_GeometryErrorNamesFile ==
  RaisedWith("GeometryError")
    => m.message # None /\ Contains(m.message[1], m.input_parts[2][1])

\* The GeometryError of a content that no parser reads has the path in its
\* message.
UnhandledFormatNamesFile ==
  RaisedWith("GeometryError") /\ file.geometry = None
    => m.message # None /\ Contains(m.message[1], m.input_parts[2][1])

\* main has raised GeometryError on a geometry that is invalid.
InvalidGeometryRaised ==
  /\ RaisedWith("GeometryError")
  /\ file.geometry # None
  /\ m.message = Some(InvalidGeometryMessage(file.geometry[1]))

\* The bboxes main has passed to tm.bbox_to_tiles.
BboxesTransformed ==
  { log.tm[k].arg : k \in { j \in DOMAIN log.tm : log.tm[j].fn = "bbox_to_tiles" } }

\* C25: every bbox that main reads from an input string and passes to
\* tm.bbox_to_tiles has minX <= maxX and minY <= maxY: a well formed string
\* with a minimum above its maximum is rejected.
C25_BboxOrdered ==
  m.input_parts # None /\ InputKind \in { S_BBOX, S_BBOXES_LIST }
    => \A b \in BboxesTransformed : b[1] <= b[3] /\ b[2] <= b[4]

\* main has passed to the transform the bbox of "BBOX:3,-1,1,-3", as read.
InvertedBboxTransformed ==
  /\ m.input_parts # None
  /\ InputKind = S_BBOX
  /\ m.input_parts[2] = Some(<< "3", ",", "-", "1", ",", "1", ",", "-", "3" >>)
  /\ << 30, -10, 10, -30 >> \in BboxesTransformed

\* The slab sizes main has passed to bbox_to_slab_list.
SlabSizesPassed ==
  { log.enum[k].slab_size[1] :
      k \in { j \in DOMAIN log.enum : log.enum[j].fn = "bbox_to_slab_list" } }

\* The width or the height of --slabsize is written as zero.
ZeroSlabSizeArg ==
  /\ args.slabsize # None
  /\ SlabSizeOfString(args.slabsize[1]) # None
  /\ \E i \in 1..2 : SlabSizeOfString(args.slabsize[1])[1][i] = 0

\* C26: every slab size main passes to bbox_to_slab_list has a positive
\* width and a positive height, and a --slabsize with a zero dimension ends
\* main with a value error, exit code 2, before any floor division.
C26_SlabSizePositive ==
  /\ \A s \in SlabSizesPassed : s[1] > 0 /\ s[2] > 0
  /\ ZeroSlabSizeArg /\ Exited => m.exit_code = Some(2)
  /\ ZeroSlabSizeArg => ~RaisedWith("ZeroDivisionError")

\* main has divided by the zero width of "--slabsize 0x1" and exits with 1.
ZeroSlabSizeDivided ==
  /\ ZeroSlabSizeArg
  /\ Exited
  /\ m.raised = "ZeroDivisionError"
  /\ m.exit_code = Some(1)
  /\ << 0, 1 >> \in SlabSizesPassed

\* C27: without a container, bbox_to_gettile and bbox_to_slab_list make one
\* call to the tile matrix, tm.bbox_to_tiles(bbox), never call
\* tm.tile_to_bbox and build no rectangle.
C27_UnfilteredPathCalls ==
  (epc = "returned" /\ call.container = None)
    => /\ ret.tm_calls = << [fn |-> "bbox_to_tiles", arg |-> call.bbox] >>
       /\ ret.ogr_calls = <<>>

\* C27 witness: an enumerator has returned several entries without a
\* container.
C27_Witness ==
  /\ epc = "returned"
  /\ call.container = None
  /\ Len(ret.list) > 1
  /\ ret.tm_calls # <<>>

\* a is b with some of its elements left out, the others in their order.
RECURSIVE IsSubsequence(_, _)
IsSubsequence(a, b) ==
  IF a = <<>> THEN TRUE
  ELSE IF b = <<>> THEN FALSE
  ELSE IF Head(a) = Head(b) THEN IsSubsequence(Tail(a), Tail(b))
  ELSE IsSubsequence(a, Tail(b))

\* The list the enumerator called returns for the same tile matrix, bbox and
\* slab size when it is given no container.
UnfilteredList ==
  IF call.fn = "bbox_to_gettile"
  THEN bbox_to_gettile(call.tm, call.bbox, None).list
  ELSE bbox_to_slab_list(call.tm, call.bbox, call.slab_size[1], None).list

\* C29: the list bbox_to_gettile or bbox_to_slab_list returns with a
\* container is the list it returns without one, with entries left out:
\* the filter adds no entry and changes no order.
C29_FilterOnlyRemoves ==
  (epc = "returned" /\ call.container # None)
    => IsSubsequence(ret.list, UnfilteredList)

\* C29 witness: with a container, an enumerator has returned two entries
\* or more and has left some out.
C29_Witness ==
  /\ epc = "returned"
  /\ call.container # None
  /\ Len(ret.list) > 1
  /\ Len(ret.list) < Len(UnfilteredList)

\* The elements of a sequence.
Range(seq) == { seq[k] : k \in DOMAIN seq }

\* The slabs of a set of bbox lines: the union of what bbox_to_slab_list
\* returns for each of them, whatever their order and their number.
SlabsOfLineSet(lines) ==
  UNION { Range(bbox_to_slab_list(m.tm[1], read_bbox(l)[1], m.slab_size[1],
                                  None).list) : l \in lines }

\* The output made from a set of slabs alone: one line "<column>,<row>" for
\* each, in ascending order of (column, row).
OutputOfSlabSet(slabs) ==
  PrintEach([i \in 1..Cardinality(slabs) |->
               SlabString(CHOOSE s \in slabs :
                  Cardinality({ t \in slabs : TupleLess(t, s) }) = i - 1)])

\* main has returned from BBOXES_LIST to SLAB_INDICES.
ListToSlabsDone ==
  /\ Done
  /\ InputKind = S_BBOXES_LIST
  /\ OutputKind = S_SLAB_INDICES

\* C30: what BBOXES_LIST to SLAB_INDICES prints is a function of the set of
\* the lines of the list: neither the order of the lines nor the number of
\* times a line is written changes it.
C30_ListOutputOfSet ==
  ListToSlabsDone
    => stdout = OutputOfSlabSet(SlabsOfLineSet(Range(SplitLines(file.text))))

\* C30 witness: main has returned on a list of two bboxes whose slabs came
\* in descending order.
C30_Witness ==
  /\ ListToSlabsDone
  /\ Len(log.enum) = 2
  /\ log.enum[1].list # <<>> /\ log.enum[2].list # <<>>
  /\ TupleLess(log.enum[2].list[1], log.enum[1].list[1])

\* main has returned on a list that holds the same bbox twice.
ListRepeatedLineDone ==
  /\ ListToSlabsDone
  /\ Len(m.bbox_list) = 2
  /\ m.bbox_list[1] = m.bbox_list[2]
  /\ stdout # <<>>

\* Lines 300-307: what BBOX to SLAB_INDICES prints for a bbox.
BboxSlabOutput(bbox) ==
  LET list == bbox_to_slab_list(m.tm[1], bbox, m.slab_size[1], None).list
  IN PrintEach([k \in DOMAIN list |-> SlabString(list[k])])

\* main has returned from BBOX to SLAB_INDICES.
BboxToSlabsDone ==
  /\ Done
  /\ InputKind = S_BBOX
  /\ OutputKind = S_SLAB_INDICES

\* main has returned from a GEOM_FILE of one part to SLAB_INDICES, and the
\* container has answered true for every candidate slab.
GeomOnePartUnfilteredDone ==
  /\ Done
  /\ InputKind = S_GEOM_FILE
  /\ OutputKind = S_SLAB_INDICES
  /\ Len(m.bbox_list) = 1
  /\ Len(log.enum) = 1
  /\ log.enum[1].list
       = bbox_to_slab_list(m.tm[1], m.bbox_list[1], m.slab_size[1], None).list

\* A list of one bbox prints what BBOX prints for that bbox.
ListOfOneAsBbox ==
  /\ BboxToSlabsDone => stdout = BboxSlabOutput(m.bbox[1])
  /\ ListToSlabsDone /\ Len(m.bbox_list) = 1
       => stdout = BboxSlabOutput(read_bbox(m.bbox_list[1])[1])

\* C28: to SLAB_INDICES, a list of one bbox prints what BBOX prints for that
\* bbox, and a geometry of one part whose container intersects every
\* candidate slab prints the lines BBOX prints for the envelope of the part,
\* in the same order.
C28_DegenerateInputsAgree ==
  /\ ListOfOneAsBbox
  /\ GeomOnePartUnfilteredDone => stdout = BboxSlabOutput(m.bbox_list[1])

\* main has printed "10,0" before "9,0" for a geometry of one part, where
\* BBOX prints "9,0" first for the envelope of that part.
GeomOnePartOtherOrder ==
  /\ GeomOnePartUnfilteredDone
  /\ Len(EmittedLines) = 2
  /\ Range(EmittedLines) = Range(SplitLines(BboxSlabOutput(m.bbox_list[1])))
  /\ EmittedLines # SplitLines(BboxSlabOutput(m.bbox_list[1]))

====
